---------------------------- MODULE Spec2Model ----------------------------
(***************************************************************************)
(* A model of codebuddy2cc's core pipeline (package handlers and the       *)
(* event validator of package utils):                                      *)
(*   - SSEStreamState        the output sequencer                          *)
(*   - SSEEventValidator     the sequence validator it records into        *)
(*   - ToolCallsSession      the invocation aggregator                     *)
(*   - SSEStreamParser       the chunked-stream reader                     *)
(*   - processUnifiedResponse  the response assembler                      *)
(*   - writeStreamResponse   the streaming output adapter                  *)
(*   - splitUTF8SafeChunks   the UTF-8-safe chunker                        *)
(* Text is a sequence of bytes (integers 0..255).  Every component has its *)
(* own variables and its own specification; a specification leaves the     *)
(* variables of the other components unchanged.                            *)
(***************************************************************************)
EXTENDS Integers, Sequences, FiniteSets, TLC

VARIABLES
    streamState,    \* the SSEStreamState of the response being written
    frames,         \* what has been written to c.Writer, in order
    seqCall,        \* the sequencer operation called last and what it returned
    session,        \* the ToolCallsSession of the request
    aggCall,        \* the choice absorbed last and the ToolProcessResult returned
    absorbed,       \* the fragments the aggregator has visited, in arrival order
    parser,         \* the SSEStreamParser (buffer) and the position of NextEvent
    source,         \* the upstream byte source: its bytes, how many were read
    ctxDone,        \* whether the cancellation signal (ctx.Done()) is set
    rdrCall,        \* bookkeeping of the current NextEvent call
    events,         \* the events NextEvent has returned, in order
    asm,            \* the local variables of processUnifiedResponse
    upstream,       \* decoded upstream events still to be delivered to the assembler
    chk,            \* the local variables of splitUTF8SafeChunks
    wsr,            \* the position and locals of writeStreamResponse
    auth,           \* the router: the request at hand, how far it got, the answer
    hdl,            \* the position and locals of MessagesHandler
    reqs,           \* two requests handled at once, each with what it owns
    cnv,            \* the calls of ConvertOpenAIStreamToAnthropic: event and result
    proc            \* the process: the signal channel, its goroutine, the debug file

seqVars == <<streamState, frames, seqCall>>
aggVars == <<session, aggCall, absorbed>>
rdrVars == <<parser, source, ctxDone, rdrCall, events>>
asmVars == <<asm, upstream>>
chkVars == <<chk>>
wsrVars == <<wsr>>
srvVars == <<auth, hdl, reqs, cnv, proc>>
vars == <<streamState, frames, seqCall, session, aggCall, absorbed, parser,
          source, ctxDone, rdrCall, events, asm, upstream, chk, wsr, srvVars>>

-----------------------------------------------------------------------------
(* Helpers on sequences.                                                   *)

Contains(s, x) == \E i \in 1..Len(s) : s[i] = x

Count(s, x) == Cardinality({i \in 1..Len(s) : s[i] = x})

RECURSIVE Flatten(_)
Flatten(ss) == IF ss = <<>> THEN <<>> ELSE Head(ss) \o Flatten(Tail(ss))

\* bytes.Index / strings.Index: the first position (0-based) of pat in s at or
\* after 0, or -1.
IndexOf(s, pat) ==
    LET hits == {i \in 0..(Len(s) - Len(pat)) :
                    \A k \in 1..Len(pat) : s[i + k] = pat[k]}
    IN IF hits = {} THEN -1 ELSE CHOOSE i \in hits : \A j \in hits : i <= j

\* s[from:] and s[from:to] of Go (0-based, to exclusive).
SliceFrom(s, from) == SubSeq(s, from + 1, Len(s))
Slice(s, from, to) == SubSeq(s, from + 1, to)

\* The white space strings.TrimSpace removes, among the bytes of the model:
\* '\t' '\n' '\v' '\f' '\r' ' '.
IsSpace(b) == b \in {9, 10, 11, 12, 13, 32}

RECURSIVE TrimLeft(_)
TrimLeft(s) == IF s # <<>> /\ IsSpace(Head(s)) THEN TrimLeft(Tail(s)) ELSE s

RECURSIVE TrimRight(_)
TrimRight(s) ==
    IF s # <<>> /\ IsSpace(s[Len(s)]) THEN TrimRight(SubSeq(s, 1, Len(s) - 1)) ELSE s

TrimSpace(s) == TrimRight(TrimLeft(s))

-----------------------------------------------------------------------------
(* The event kinds of utils (SSEEvent* constants) and the validator.       *)

SSEEventMessageStart      == "message_start"
SSEEventContentBlockStart == "content_block_start"
SSEEventContentBlockDelta == "content_block_delta"
SSEEventContentBlockStop  == "content_block_stop"
SSEEventMessageDelta      == "message_delta"
SSEEventMessageStop       == "message_stop"

NewSSEEventValidator == [currentIndex |-> 0, eventHistory |-> <<>>]

hasEventInHistory(v, eventType) == Contains(v.eventHistory, eventType)

\* ValidateEvent: the validator after the call and whether it returned an error.
ValidateEvent(v, eventType) ==
    LET h == [v EXCEPT !.eventHistory = Append(@, eventType)]
    IN CASE eventType = SSEEventContentBlockDelta ->
              [v |-> h,
               err |-> (Len(h.eventHistory) < 2
                        \/ ~hasEventInHistory(h, SSEEventContentBlockStart))]
         [] eventType = SSEEventMessageStart ->
              IF h.currentIndex # 0 THEN [v |-> h, err |-> TRUE]
              ELSE [v |-> [h EXCEPT !.currentIndex = 1], err |-> FALSE]
         [] eventType = SSEEventContentBlockStart ->
              IF ~hasEventInHistory(h, SSEEventMessageStart) THEN [v |-> h, err |-> TRUE]
              ELSE [v |-> [h EXCEPT !.currentIndex = 2], err |-> FALSE]
         [] eventType = SSEEventContentBlockStop ->
              IF ~hasEventInHistory(h, SSEEventContentBlockStart) THEN [v |-> h, err |-> TRUE]
              ELSE [v |-> [h EXCEPT !.currentIndex = 4], err |-> FALSE]
         [] eventType = SSEEventMessageDelta ->
              IF ~hasEventInHistory(h, SSEEventContentBlockStop)
                 /\ ~hasEventInHistory(h, SSEEventContentBlockStart)
              THEN [v |-> h, err |-> TRUE]
              ELSE [v |-> [h EXCEPT !.currentIndex = 5], err |-> FALSE]
         [] eventType = SSEEventMessageStop ->
              IF ~hasEventInHistory(h, SSEEventMessageDelta) THEN [v |-> h, err |-> TRUE]
              ELSE [v |-> [h EXCEPT !.currentIndex = 6], err |-> FALSE]
         [] OTHER -> [v |-> h, err |-> TRUE]

\* ValidateCompleteSequence: TRUE when it returns an error.
ValidateCompleteSequenceFails(v) ==
    \/ ~hasEventInHistory(v, SSEEventMessageStart)
    \/ ~hasEventInHistory(v, SSEEventMessageStop)
    \/ Len(v.eventHistory) = 0
    \/ v.eventHistory[1] # SSEEventMessageStart
    \/ v.eventHistory[Len(v.eventHistory)] # SSEEventMessageStop

-----------------------------------------------------------------------------
(* The frames of AnthropicSSEFormatter: the event kind, the block index    *)
(* (-1 where the frame carries none) and the payload that varies.          *)

FormatMessageStart(messageID, model) ==
    [type |-> SSEEventMessageStart, index |-> -1, payload |-> <<messageID, model>>]

FormatContentBlockStart(index, blockType, additional) ==
    [type |-> SSEEventContentBlockStart, index |-> index,
     payload |-> <<blockType>> \o additional]

FormatContentBlockDelta(index, deltaType, content) ==
    [type |-> SSEEventContentBlockDelta, index |-> index,
     payload |-> <<deltaType, content>>]

FormatContentBlockStop(index) ==
    [type |-> SSEEventContentBlockStop, index |-> index, payload |-> <<>>]

FormatMessageDelta(stopReason, usage) ==
    [type |-> SSEEventMessageDelta, index |-> -1, payload |-> <<stopReason, usage>>]

FormatMessageStop ==
    [type |-> SSEEventMessageStop, index |-> -1, payload |-> <<>>]

\* The kinds of the frames written so far.
FrameTypes(w) == [i \in 1..Len(w) |-> w[i].type]

-----------------------------------------------------------------------------
(* SSEStreamState, the output sequencer.  An operation is an operator from *)
(* the state s and the writer w to the state, the writer and the value     *)
(* returned.                                                               *)

NewSSEStreamState ==
    [messageStartSent    |-> FALSE,
     contentBlockStarted |-> FALSE,
     streamFinished      |-> FALSE,
     messageID           |-> "",
     messageModel        |-> "",
     currentBlockIndex   |-> 0,
     toolCallsActive     |-> FALSE,
     eventHistory        |-> <<>>,
     validationEnabled   |-> TRUE,
     sequenceValidator   |-> NewSSEEventValidator,
     errorCount          |-> 0]

\* recordEvent with the validator's verdict dropped: nothing is counted.
recordEventUncounted(s, eventType) ==
    LET h == [s EXCEPT !.eventHistory = Append(@, eventType)]
    IN IF h.validationEnabled
       THEN [h EXCEPT !.sequenceValidator = ValidateEvent(h.sequenceValidator, eventType).v]
       ELSE h

\* recordEvent; the error it returns is only logged by its callers.
recordEvent(s, eventType) ==
    LET h == [s EXCEPT !.eventHistory = Append(@, eventType)]
    IN IF h.validationEnabled
       THEN LET r == ValidateEvent(h.sequenceValidator, eventType)
            IN [h EXCEPT !.sequenceValidator = r.v,
                         !.errorCount = IF r.err THEN @ + 1 ELSE @]
       ELSE h

\* EnsureMessageStart without its messageStartSent guard.
EnsureMessageStartUnguarded(s, w, messageID, model) ==
    LET s1 == recordEvent([s EXCEPT !.messageID = messageID, !.messageModel = model],
                          SSEEventMessageStart)
    IN [s |-> [s1 EXCEPT !.messageStartSent = TRUE],
        w |-> Append(w, FormatMessageStart(messageID, model)),
        ret |-> TRUE]

EnsureMessageStart(s, w, messageID, model) ==
    IF s.messageStartSent THEN [s |-> s, w |-> w, ret |-> FALSE]
    ELSE LET id == IF messageID = "" THEN "msg_interim" ELSE messageID
             md == IF model = "" THEN "claude-unknown" ELSE model
             s1 == [s EXCEPT !.messageID = id, !.messageModel = md]
             s2 == recordEvent(s1, SSEEventMessageStart)
         IN [s |-> [s2 EXCEPT !.messageStartSent = TRUE],
             w |-> Append(w, FormatMessageStart(id, md)),
             ret |-> TRUE]

\* EnsureContentBlockStart that writes nothing when the validator objects.
EnsureContentBlockStartGated(s, w, blockType) ==
    IF s.contentBlockStarted \/ s.toolCallsActive THEN [s |-> s, w |-> w, ret |-> FALSE]
    ELSE LET s1 == recordEvent(s, SSEEventContentBlockStart)
         IN IF s1.errorCount > s.errorCount THEN [s |-> s1, w |-> w, ret |-> FALSE]
            ELSE [s |-> [s1 EXCEPT !.contentBlockStarted = TRUE],
                  w |-> Append(w, FormatContentBlockStart(s.currentBlockIndex,
                                                          blockType, <<>>)),
                  ret |-> TRUE]

\* EnsureContentBlockStart that does not look at toolCallsActive.
EnsureContentBlockStartInToolMode(s, w, blockType) ==
    IF s.contentBlockStarted THEN [s |-> s, w |-> w, ret |-> FALSE]
    ELSE LET s1 == recordEvent(s, SSEEventContentBlockStart)
         IN [s |-> [s1 EXCEPT !.contentBlockStarted = TRUE],
             w |-> Append(w, FormatContentBlockStart(s.currentBlockIndex, blockType, <<>>)),
             ret |-> TRUE]

EnsureContentBlockStart(s, w, blockType) ==
    IF s.contentBlockStarted \/ s.toolCallsActive THEN [s |-> s, w |-> w, ret |-> FALSE]
    ELSE LET s1 == recordEvent(s, SSEEventContentBlockStart)
         IN [s |-> [s1 EXCEPT !.contentBlockStarted = TRUE],
             w |-> Append(w, FormatContentBlockStart(s.currentBlockIndex, blockType, <<>>)),
             ret |-> TRUE]

FinishContentBlockUnguarded(s, w) ==
    LET s1 == recordEvent(s, SSEEventContentBlockStop)
    IN [s |-> [s1 EXCEPT !.contentBlockStarted = FALSE,
                         !.currentBlockIndex = @ + 1],
        w |-> Append(w, FormatContentBlockStop(s.currentBlockIndex)),
        ret |-> TRUE]

FinishContentBlock(s, w) ==
    IF ~s.contentBlockStarted THEN [s |-> s, w |-> w, ret |-> FALSE]
    ELSE LET s1 == recordEvent(s, SSEEventContentBlockStop)
         IN [s |-> [s1 EXCEPT !.contentBlockStarted = FALSE,
                              !.currentBlockIndex = @ + 1],
             w |-> Append(w, FormatContentBlockStop(s.currentBlockIndex)),
             ret |-> TRUE]

ActivateToolCalls(s) == [s EXCEPT !.toolCallsActive = TRUE]

EnableValidation(s, enabled) == [s EXCEPT !.validationEnabled = enabled]

\* The body of FinishStreamWithUsage without the auto-close of an open block.
FinishStreamBodyNoAutoClose(s, w, stopReason, usage) ==
    LET s2 == recordEvent(s, SSEEventMessageDelta)
        w2 == Append(w, FormatMessageDelta(stopReason, usage))
        s3 == recordEvent(s2, SSEEventMessageStop)
    IN [s |-> [s3 EXCEPT !.streamFinished = TRUE],
        w |-> Append(w2, FormatMessageStop), ret |-> TRUE]

\* The body of FinishStreamWithUsage after its streamFinished guard.
FinishStreamBody(s, w, stopReason, usage) ==
    LET open == s.contentBlockStarted
        s1 == IF open
              THEN [recordEvent(s, SSEEventContentBlockStop)
                        EXCEPT !.contentBlockStarted = FALSE]
              ELSE s
        w1 == IF open THEN Append(w, FormatContentBlockStop(s.currentBlockIndex)) ELSE w
        s2 == recordEvent(s1, SSEEventMessageDelta)
        w2 == Append(w1, FormatMessageDelta(stopReason, usage))
        s3 == recordEvent(s2, SSEEventMessageStop)
        w3 == Append(w2, FormatMessageStop)
        s4 == [s3 EXCEPT !.streamFinished = TRUE]
        s5 == IF s4.validationEnabled
                 /\ ValidateCompleteSequenceFails(s4.sequenceValidator)
              THEN [s4 EXCEPT !.errorCount = @ + 1]
              ELSE s4
    IN [s |-> s5, w |-> w3, ret |-> TRUE]

\* FinishStreamWithUsage without its streamFinished guard.
FinishStreamUnguarded(s, w, stopReason, usage) ==
    FinishStreamBody(s, w, stopReason, usage)

FinishStreamWithUsage(s, w, stopReason, usage) ==
    IF s.streamFinished THEN [s |-> s, w |-> w, ret |-> FALSE]
    ELSE FinishStreamBody(s, w, stopReason, usage)

NoUsage == <<>>

FinishStream(s, w, stopReason) == FinishStreamWithUsage(s, w, stopReason, NoUsage)

IsFinished(s) == s.streamFinished

-----------------------------------------------------------------------------
(* ToolCallsSession, the invocation aggregator.  An identifier is a number *)
(* (0 is the empty string); toolCallsOrder holds the AnthropicToolCall     *)
(* objects in creation order and toolCallsMap maps an identifier to the    *)
(* object it points to, named by its position in creation order.           *)

MaxToolCalls == 32

ToolProcessContinue == "ToolProcessContinue"
ToolProcessDone     == "ToolProcessDone"
ToolProcessError    == "ToolProcessError"

NoID == 0

newToolCallsSession == [toolCallsMap |-> <<>>, toolCallsOrder |-> <<>>]

\* "Update tool info" where a later name replaces the one already set.
UpdateToolLastNameWins(sess, cur, openaiTool) ==
    [sess EXCEPT !.toolCallsOrder[cur] =
        [@ EXCEPT !.Name = IF openaiTool.Name # "" THEN openaiTool.Name ELSE @,
                  !.Arguments = IF openaiTool.Arguments # <<>>
                                THEN @ \o openaiTool.Arguments ELSE @]]

\* "Update tool info" and "accumulate argument fragment" on the object at cur.
UpdateToolOverwriting(sess, cur, openaiTool) ==
    [sess EXCEPT !.toolCallsOrder[cur] =
        [@ EXCEPT !.Name = IF openaiTool.Name # "" /\ @ = "" THEN openaiTool.Name ELSE @,
                  !.Arguments = IF openaiTool.Arguments # <<>>
                                THEN openaiTool.Arguments ELSE @]]

UpdateTool(sess, cur, openaiTool) ==
    [sess EXCEPT !.toolCallsOrder[cur] =
        [@ EXCEPT !.Name = IF openaiTool.Name # "" /\ @ = "" THEN openaiTool.Name ELSE @,
                  !.Arguments = IF openaiTool.Arguments # <<>>
                                THEN @ \o openaiTool.Arguments ELSE @]]

\* The session with a new AnthropicToolCall{ID: id} in the map and the order.
CreateTool(sess, id) ==
    [toolCallsMap |->
        [k \in DOMAIN sess.toolCallsMap \cup {id} |->
            IF k = id THEN Len(sess.toolCallsOrder) + 1 ELSE sess.toolCallsMap[k]],
     toolCallsOrder |->
        Append(sess.toolCallsOrder, [ID |-> id, Name |-> "", Arguments |-> <<>>])]

\* The bound check before a new tool is created.
LimitExceededOffByOne(sess) == Len(sess.toolCallsOrder) > MaxToolCalls

\* The bound check failing one tool early.
LimitExceededEarly(sess) == Len(sess.toolCallsOrder) >= MaxToolCalls - 1

LimitExceeded(sess) == Len(sess.toolCallsOrder) >= MaxToolCalls

\* The first tool of the order instead of the last.
FirstTool(sess) == 1

\* The tool a fragment without an identifier continues: the last of the order.
LastTool(sess) == Len(sess.toolCallsOrder)

\* The loop over choice.Delta.ToolCalls: the session after it and the result.
RECURSIVE AbsorbToolCalls(_, _)
AbsorbToolCalls(sess, calls) ==
    IF calls = <<>> THEN [sess |-> sess, ret |-> ToolProcessContinue]
    ELSE LET openaiTool == Head(calls)
         IN IF openaiTool.ID # NoID
            THEN IF openaiTool.ID \in DOMAIN sess.toolCallsMap
                 THEN AbsorbToolCalls(
                          UpdateTool(sess, sess.toolCallsMap[openaiTool.ID], openaiTool),
                          Tail(calls))
                 ELSE IF LimitExceeded(sess)
                      THEN [sess |-> sess, ret |-> ToolProcessError]
                      ELSE LET created == CreateTool(sess, openaiTool.ID)
                           IN AbsorbToolCalls(
                                  UpdateTool(created, Len(created.toolCallsOrder), openaiTool),
                                  Tail(calls))
            ELSE IF Len(sess.toolCallsOrder) > 0
                 THEN AbsorbToolCalls(UpdateTool(sess, LastTool(sess), openaiTool),
                                      Tail(calls))
                 ELSE AbsorbToolCalls(sess, Tail(calls))

\* A choice of an OpenAI chunk.  Delta is nil or holds ToolCalls (nil or a list)
\* and Content (nil, a string or another JSON value); FinishReason is "nil" for
\* the nil pointer.
NilContent == [kind |-> "nil", text |-> <<>>]
StringContent(text) == [kind |-> "string", text |-> text]
OtherContent == [kind |-> "other", text |-> <<>>]

DeltaChoice(toolCallsNil, toolCalls, content, finishReason) ==
    [Delta |-> [isNil |-> FALSE, ToolCallsNil |-> toolCallsNil,
                ToolCalls |-> toolCalls, Content |-> content],
     FinishReason |-> finishReason]

NilDeltaChoice(finishReason) ==
    [Delta |-> [isNil |-> TRUE, ToolCallsNil |-> TRUE,
                ToolCalls |-> <<>>, Content |-> NilContent],
     FinishReason |-> finishReason]

ToolCallsChoice(calls) == DeltaChoice(FALSE, calls, NilContent, "nil")

processToolCallsUnified(sess, choice) ==
    IF ~choice.Delta.isNil /\ ~choice.Delta.ToolCallsNil
    THEN AbsorbToolCalls(sess, choice.Delta.ToolCalls)
    ELSE IF choice.FinishReason = "tool_calls"
         THEN [sess |-> sess, ret |-> ToolProcessDone]
         ELSE [sess |-> sess, ret |-> ToolProcessContinue]

\* The teardown emptying the map alone.
clearToolCallsMapOnly(sess) == [sess EXCEPT !.toolCallsMap = <<>>]

clearToolCallsWithLogging(sess) == [toolCallsMap |-> <<>>, toolCallsOrder |-> <<>>]

-----------------------------------------------------------------------------
(* The aggregator driven by an arbitrary caller.  Fragments carry one of   *)
(* the identifiers of NamedIDs or none; one chunk, the flood, carries      *)
(* FloodLen further identifiers, enough to reach MaxToolCalls.             *)

MaxFragments == 2
DeltaLens == {0, 1, 2}

NamedIDs == {1, 2}
FloodLen == MaxToolCalls - 1

\* {"a":  and  1}
ArgsOpen == <<123, 34, 97, 34, 58>>
ArgsClose == <<49, 125>>

FragmentPayloads ==
    {[Name |-> "f", Arguments |-> ArgsOpen],
     [Name |-> "", Arguments |-> ArgsClose],
     [Name |-> "g", Arguments |-> <<>>],
     [Name |-> "", Arguments |-> <<>>]}

Fragments ==
    {[ID |-> id, Name |-> p.Name, Arguments |-> p.Arguments] :
        id \in NamedIDs \cup {NoID}, p \in FragmentPayloads}

DeltaLists == UNION {[1..n -> Fragments] : n \in DeltaLens}

FloodChunk ==
    [i \in 1..FloodLen |->
        [ID |-> Cardinality(NamedIDs) + i, Name |-> "", Arguments |-> <<>>]]

\* What the chunks delivered so far count against MaxFragments; the flood is free.
ChunkCost(calls) == IF calls = FloodChunk THEN 0 ELSE IF Len(calls) = 0 THEN 1 ELSE Len(calls)

RECURSIVE LogCost(_)
LogCost(log) == IF log = <<>> THEN 0 ELSE ChunkCost(Head(log)) + LogCost(Tail(log))

NewAggCall == [op |-> "new", ret |-> ToolProcessContinue]

AggDeliver(calls) ==
    LET r == processToolCallsUnified(session, ToolCallsChoice(calls))
    IN /\ session' = r.sess
       /\ aggCall' = [op |-> "absorb", ret |-> r.ret]
       /\ absorbed' = Append(absorbed, calls)
       /\ UNCHANGED <<seqVars, rdrVars, asmVars, chkVars, wsrVars, srvVars>>

AggAbsorb ==
    \E calls \in DeltaLists :
        /\ LogCost(absorbed) + ChunkCost(calls) <= MaxFragments
        /\ AggDeliver(calls)

AggAbsorbFlood ==
    /\ ~Contains(absorbed, FloodChunk)
    /\ AggDeliver(FloodChunk)

\* A choice without a ToolCalls field: only its finish reason is looked at.
AggFinishReason ==
    \E reason \in {"nil", "tool_calls", "stop"} :
        LET r == processToolCallsUnified(session, NilDeltaChoice(reason))
        IN /\ session' = r.sess
           /\ aggCall' = [op |-> "finish", ret |-> r.ret]
           /\ UNCHANGED absorbed
           /\ UNCHANGED <<seqVars, rdrVars, asmVars, chkVars, wsrVars, srvVars>>

AggNext ==
    \/ AggAbsorb
    \/ AggAbsorbFlood
    \/ AggFinishReason

\* The teardown of the session, at any moment and any number of times; the
\* call record tells a teardown that follows a teardown from a first one.
AggTeardown ==
    /\ session' = clearToolCallsWithLogging(session)
    /\ aggCall' = [op |-> IF aggCall.op \in {"teardown", "teardown again"}
                          THEN "teardown again" ELSE "teardown",
                   ret |-> ToolProcessContinue]
    /\ UNCHANGED absorbed
    /\ UNCHANGED <<seqVars, rdrVars, asmVars, chkVars, wsrVars, srvVars>>

TeardownNext ==
    \/ AggAbsorb
    \/ AggAbsorbFlood
    \/ AggTeardown

\* The aggregator fed one fragment per chunk, a few chunks deep.
MaxRouted == 4

RouteFragments ==
    {[ID |-> id, Name |-> p.Name, Arguments |-> p.Arguments] :
        id \in NamedIDs \cup {NoID},
        p \in {[Name |-> "f", Arguments |-> ArgsOpen],
               [Name |-> "", Arguments |-> ArgsClose],
               [Name |-> "g", Arguments |-> <<>>]}}

RouteDeliver ==
    /\ Len(absorbed) < MaxRouted
    /\ \E f \in RouteFragments : AggDeliver(<<f>>)

RouteNext ==
    \/ RouteDeliver
    \/ AggFinishReason

-----------------------------------------------------------------------------
(* SSEStreamParser, the chunked-stream reader.                             *)

\* "data: ", "data: {" and "data: [DONE]"
DataMarker == <<100, 97, 116, 97, 58, 32>>
DataBrace == DataMarker \o <<123>>
DataDone == DataMarker \o <<91, 68, 79, 78, 69, 93>>
NL == <<10>>

\* The size of tempBuf: the most one Read returns.
TempBufSize == 1024

NewSSEStreamParser == [buffer |-> <<>>, pc |-> "idle"]

\* tryParseEvent: the event ("" is <<>>) and the number of bytes consumed.
tryParseEvent(data) ==
    IF Len(data) = 0 THEN [event |-> <<>>, consumed |-> 0]
    ELSE LET dataStart == IndexOf(data, DataMarker)
         IN IF dataStart = -1
            THEN LET newlineIdx == IndexOf(data, NL)
                 IN IF newlineIdx # -1
                    THEN [event |-> <<>>, consumed |-> newlineIdx + 1]
                    ELSE [event |-> <<>>, consumed |-> 0]
            ELSE LET rest == SliceFrom(data, dataStart)
                     doubleNewline == IndexOf(rest, NL \o NL)
                     singleNewline == IndexOf(rest, NL)
                     single == TrimSpace(Slice(data, dataStart, dataStart + singleNewline))
                 IN IF doubleNewline # -1
                    THEN [event |-> TrimSpace(Slice(data, dataStart, dataStart + doubleNewline)),
                          consumed |-> dataStart + doubleNewline + 2]
                    ELSE IF singleNewline # -1
                            /\ (IndexOf(single, DataBrace) # -1 \/ IndexOf(single, DataDone) # -1)
                         THEN [event |-> single, consumed |-> dataStart + singleNewline + 1]
                         ELSE [event |-> <<>>, consumed |-> 0]

\* The trim of the residue at end-of-stream: ' ', '\t', '\n' and '\r' only.
IsResidueSpace(b) == b \in {32, 9, 10, 13}

RECURSIVE TrimResidueLeft(_)
TrimResidueLeft(s) ==
    IF s # <<>> /\ IsResidueSpace(Head(s)) THEN TrimResidueLeft(Tail(s)) ELSE s

RECURSIVE TrimResidueRight(_)
TrimResidueRight(s) ==
    IF s # <<>> /\ IsResidueSpace(s[Len(s)])
    THEN TrimResidueRight(SubSeq(s, 1, Len(s) - 1)) ELSE s

TrimResidue(s) == TrimResidueRight(TrimResidueLeft(s))

\* The residue returned at end-of-stream and left in the buffer.
OnReadEOFKeepingBuffer(p) ==
    LET residue == TrimResidue(p.buffer)
    IN IF Len(p.buffer) > 0 /\ residue # <<>>
       THEN [parser |-> [p EXCEPT !.pc = "idle"], ret |-> "event", event |-> residue]
       ELSE [parser |-> [p EXCEPT !.pc = "idle"], ret |-> "EOF", event |-> <<>>]

\* What NextEvent does with a Read that returned err = io.EOF: the n bytes that
\* came with it are not looked at.
OnReadEOF(p) ==
    LET residue == TrimResidue(p.buffer)
    IN IF Len(p.buffer) > 0 /\ residue # <<>>
       THEN [parser |-> [buffer |-> <<>>, pc |-> "idle"], ret |-> "event", event |-> residue]
       ELSE [parser |-> [p EXCEPT !.pc = "idle"], ret |-> "EOF", event |-> <<>>]

\* The select on ctx.Done() between the parse and the read.
CtxCheckSkipped(p, done) == [parser |-> [p EXCEPT !.pc = "read"], ret |-> "none"]

CtxCheck(p, done) ==
    IF done THEN [parser |-> [p EXCEPT !.pc = "idle"], ret |-> "ctx.Err"]
    ELSE [parser |-> [p EXCEPT !.pc = "read"], ret |-> "none"]

-----------------------------------------------------------------------------
(* The sequencer driven by an arbitrary caller: any operation, any order.  *)

MaxBlocks == 3

MessageIDs == {"", "msg_1"}
Models == {"", "model_1"}
StopReasons == {"end_turn", "tool_use"}

NewSeqCall == [op |-> "new", ret |-> FALSE]

SeqApply(op, r) ==
    /\ streamState' = r.s
    /\ frames' = r.w
    /\ seqCall' = [op |-> op, ret |-> r.ret]
    /\ UNCHANGED <<aggVars, rdrVars, asmVars, chkVars, wsrVars, srvVars>>

SeqEnsureMessageStart ==
    \E id \in MessageIDs, m \in Models :
        SeqApply("EnsureMessageStart", EnsureMessageStart(streamState, frames, id, m))

\* The caller opens at most MaxBlocks blocks.
SeqEnsureContentBlockStart ==
    /\ streamState.currentBlockIndex < MaxBlocks
    /\ SeqApply("EnsureContentBlockStart",
                EnsureContentBlockStart(streamState, frames, "text"))

SeqFinishContentBlock ==
    SeqApply("FinishContentBlock", FinishContentBlock(streamState, frames))

SeqActivateToolCalls ==
    SeqApply("ActivateToolCalls",
             [s |-> ActivateToolCalls(streamState), w |-> frames, ret |-> TRUE])

\* Validation is switched before the first event of the response.
SeqEnableValidation ==
    \E enabled \in BOOLEAN :
        /\ streamState.eventHistory = <<>>
        /\ SeqApply("EnableValidation",
                 [s |-> EnableValidation(streamState, enabled), w |-> frames, ret |-> TRUE])

SeqFinishStream ==
    \E r \in StopReasons :
        SeqApply("FinishStream", FinishStream(streamState, frames, r))

SeqNext ==
    \/ SeqEnsureMessageStart
    \/ SeqEnsureContentBlockStart
    \/ SeqFinishContentBlock
    \/ SeqActivateToolCalls
    \/ SeqEnableValidation
    \/ SeqFinishStream

-----------------------------------------------------------------------------
(* The reader on an upstream byte stream, cancelled at any moment.  The    *)
(* stream is a list of frames "data: <payload>\n\n"; each Read returns     *)
(* some of the bytes left, the last of them alone or together with io.EOF  *)
(* (as io.Reader allows and net/http's chunked body does), or an error.    *)

MaxEvents == 2

\* {"a":1}  and  [DONE]
PayloadJSON == <<123, 34, 97, 34, 58, 49, 125>>
PayloadDone == <<91, 68, 79, 78, 69, 93>>

Payloads == {<<>>, <<120>>, <<32, 120>>, <<123, 120, 32>>, PayloadJSON, PayloadDone}

Frame(payload) == DataMarker \o payload \o NL \o NL

FramedStream(payloads) == Flatten([i \in 1..Len(payloads) |-> Frame(payloads[i])])

PayloadLists == UNION {[1..n -> Payloads] : n \in 0..MaxEvents}

Remaining == Len(source.bytes) - source.read

NewSource(ps) ==
    [bytes |-> FramedStream(ps), payloads |-> ps, read |-> 0, dataWithEOF |-> FALSE]

NewRdrCall ==
    [readInCall |-> FALSE, ctxAtEntry |-> FALSE, eventAtEntry |-> FALSE, ret |-> "none"]

rdrOthers == UNCHANGED <<seqVars, aggVars, asmVars, chkVars, wsrVars, srvVars>>

\* The caller calls NextEvent.
RdrNextEvent ==
    /\ parser.pc = "idle"
    /\ parser' = [parser EXCEPT !.pc = "parse"]
    /\ rdrCall' = [readInCall |-> FALSE, ctxAtEntry |-> ctxDone,
                   eventAtEntry |-> tryParseEvent(parser.buffer).event # <<>>,
                   ret |-> "none"]
    /\ UNCHANGED <<source, ctxDone, events>>
    /\ rdrOthers

RdrReturn(p, ret, event) ==
    /\ parser' = p
    /\ rdrCall' = [rdrCall EXCEPT !.ret = ret]
    /\ events' = IF ret = "event" THEN Append(events, event) ELSE events

\* The head of the loop: an event is parsed from the buffer, or none is.
RdrParse ==
    /\ parser.pc = "parse"
    /\ LET r == tryParseEvent(parser.buffer)
       IN IF r.event # <<>>
          THEN RdrReturn([buffer |-> SliceFrom(parser.buffer, r.consumed), pc |-> "idle"],
                         "event", r.event)
          ELSE /\ parser' = [parser EXCEPT !.pc = "select"]
               /\ UNCHANGED <<rdrCall, events>>
    /\ UNCHANGED <<source, ctxDone>>
    /\ rdrOthers

RdrSelect ==
    /\ parser.pc = "select"
    /\ LET r == CtxCheck(parser, ctxDone)
       IN IF r.ret = "none"
          THEN parser' = r.parser /\ UNCHANGED <<rdrCall, events>>
          ELSE RdrReturn(r.parser, r.ret, <<>>)
    /\ UNCHANGED <<source, ctxDone>>
    /\ rdrOthers

\* Read returns n > 0 bytes and no error.
RdrReadData ==
    /\ parser.pc = "read"
    /\ \E n \in 1..Remaining :
           /\ n <= TempBufSize
           /\ parser' = [buffer |-> parser.buffer \o
                                       SubSeq(source.bytes, source.read + 1, source.read + n),
                         pc |-> "parse"]
           /\ source' = [source EXCEPT !.read = @ + n]
    /\ rdrCall' = [rdrCall EXCEPT !.readInCall = TRUE]
    /\ UNCHANGED <<ctxDone, events>>
    /\ rdrOthers

\* Read returns io.EOF, alone at the end of the stream or with the last n bytes.
RdrReadEOF ==
    /\ parser.pc = "read"
    /\ Remaining <= TempBufSize
    /\ LET r == OnReadEOF(parser)
       IN /\ parser' = r.parser
          /\ rdrCall' = [rdrCall EXCEPT !.readInCall = TRUE, !.ret = r.ret]
          /\ events' = IF r.ret = "event" THEN Append(events, r.event) ELSE events
    /\ source' = [source EXCEPT !.read = Len(source.bytes),
                                !.dataWithEOF = @ \/ Remaining > 0]
    /\ UNCHANGED ctxDone
    /\ rdrOthers

\* Read returns another error (a transport error, context.Canceled).
RdrReadError ==
    /\ parser.pc = "read"
    /\ \E err \in {"transport error", "context.Canceled"} :
           /\ parser' = [parser EXCEPT !.pc = "idle"]
           /\ rdrCall' = [rdrCall EXCEPT !.readInCall = TRUE, !.ret = err]
    /\ UNCHANGED <<source, ctxDone, events>>
    /\ rdrOthers

Cancel ==
    /\ ~ctxDone
    /\ ctxDone' = TRUE
    /\ UNCHANGED <<parser, source, rdrCall, events>>
    /\ rdrOthers

RdrNext ==
    \/ RdrNextEvent
    \/ RdrParse
    \/ RdrSelect
    \/ RdrReadData
    \/ RdrReadEOF
    \/ RdrReadError
    \/ Cancel

-----------------------------------------------------------------------------
(* unicode/utf8 and strings.ToValidUTF8 on byte sequences.                 *)

IsCont(b, lo, hi) == b >= lo /\ b <= hi

\* The width of the well-formed encoding at the head of p; 0 when p is empty
\* or begins with a byte that starts none (utf8's first and acceptRanges).
RuneWidth(p) ==
    IF p = <<>> THEN 0
    ELSE LET b == p[1]
             n == Len(p)
             second(lo, hi) == n >= 2 /\ IsCont(p[2], lo, hi)
             third == n >= 3 /\ IsCont(p[3], 128, 191)
             fourth == n >= 4 /\ IsCont(p[4], 128, 191)
         IN IF b < 128 THEN 1
            ELSE IF b >= 194 /\ b <= 223
                 THEN IF second(128, 191) THEN 2 ELSE 0
            ELSE IF b = 224 THEN IF second(160, 191) /\ third THEN 3 ELSE 0
            ELSE IF b = 237 THEN IF second(128, 159) /\ third THEN 3 ELSE 0
            ELSE IF b >= 225 /\ b <= 239
                 THEN IF second(128, 191) /\ third THEN 3 ELSE 0
            ELSE IF b = 240
                 THEN IF second(144, 191) /\ third /\ fourth THEN 4 ELSE 0
            ELSE IF b = 244
                 THEN IF second(128, 143) /\ third /\ fourth THEN 4 ELSE 0
            ELSE IF b >= 241 /\ b <= 243
                 THEN IF second(128, 191) /\ third /\ fourth THEN 4 ELSE 0
            ELSE 0

\* utf8.RuneStart: the byte is not a continuation byte (b&0xC0 != 0x80).
RuneStart(b) == ~(b >= 128 /\ b <= 191)

\* The size utf8.DecodeRune returns: 0 for no bytes, 1 for RuneError.
DecodeRuneSize(p) ==
    IF p = <<>> THEN 0 ELSE IF RuneWidth(p) = 0 THEN 1 ELSE RuneWidth(p)

RECURSIVE ValidString(_)
ValidString(s) ==
    IF s = <<>> THEN TRUE
    ELSE RuneWidth(s) > 0 /\ ValidString(SubSeq(s, RuneWidth(s) + 1, Len(s)))

\* strings.ToValidUTF8: each run of invalid bytes becomes one replacement.
RECURSIVE ToValidUTF8From(_, _, _)
ToValidUTF8From(s, replacement, invalid) ==
    IF s = <<>> THEN <<>>
    ELSE IF s[1] < 128
         THEN <<s[1]>> \o ToValidUTF8From(Tail(s), replacement, FALSE)
    ELSE LET wid == DecodeRuneSize(s)
         IN IF wid = 1
            THEN (IF invalid THEN <<>> ELSE replacement)
                     \o ToValidUTF8From(Tail(s), replacement, TRUE)
            ELSE SubSeq(s, 1, wid)
                     \o ToValidUTF8From(SubSeq(s, wid + 1, Len(s)), replacement, FALSE)

ToValidUTF8(s, replacement) == ToValidUTF8From(s, replacement, FALSE)

\* U+FFFD
ReplacementChar == <<239, 191, 189>>

-----------------------------------------------------------------------------
(* splitUTF8SafeChunks.                                                    *)

\* The back-off loop left out: the cut stays where the budget put it.
BackOffNone(inputBytes, start, end) == end

\* The back-off loop: end moves back until it is at a rune start, at start or
\* at the end of the input.
RECURSIVE BackOff(_, _, _)
BackOff(inputBytes, start, end) ==
    IF end > start /\ end < Len(inputBytes) /\ ~RuneStart(inputBytes[end + 1])
    THEN BackOff(inputBytes, start, end - 1)
    ELSE end

\* One round of the loop where the budget is taken one byte too far.
ChunkEndOverBudget(inputBytes, start, maxChunkSize) ==
    LET totalBytes == Len(inputBytes)
        budget == IF start + maxChunkSize + 1 > totalBytes
                  THEN totalBytes ELSE start + maxChunkSize + 1
        end == BackOff(inputBytes, start, budget)
    IN IF end <= start
       THEN LET size == DecodeRuneSize(SliceFrom(inputBytes, start))
                forced == start + (IF size = 0 THEN 1 ELSE size)
            IN IF forced > totalBytes THEN totalBytes ELSE forced
       ELSE end

\* One round of the loop where the forced advance is one byte.
ChunkEndOneByte(inputBytes, start, maxChunkSize) ==
    LET totalBytes == Len(inputBytes)
        budget == IF start + maxChunkSize > totalBytes
                  THEN totalBytes ELSE start + maxChunkSize
        end == BackOff(inputBytes, start, budget)
    IN IF end <= start THEN start + 1 ELSE end

\* One round of the loop from start: the end of the chunk.
ChunkEnd(inputBytes, start, maxChunkSize) ==
    LET totalBytes == Len(inputBytes)
        budget == IF start + maxChunkSize > totalBytes
                  THEN totalBytes ELSE start + maxChunkSize
        end == BackOff(inputBytes, start, budget)
    IN IF end <= start
       THEN LET size == DecodeRuneSize(SliceFrom(inputBytes, start))
                forced == start + (IF size = 0 THEN 1 ELSE size)
            IN IF forced > totalBytes THEN totalBytes ELSE forced
       ELSE end

RECURSIVE SplitFrom(_, _, _)
SplitFrom(inputBytes, start, maxChunkSize) ==
    IF start >= Len(inputBytes) THEN <<>>
    ELSE LET end == ChunkEnd(inputBytes, start, maxChunkSize)
             chunk == Slice(inputBytes, start, end)
             fixed == IF ValidString(chunk) THEN chunk
                      ELSE ToValidUTF8(chunk, ReplacementChar)
         IN <<fixed>> \o SplitFrom(inputBytes, end, maxChunkSize)

splitUTF8SafeChunks(input, maxChunkSize) ==
    IF Len(input) = 0 THEN <<>> ELSE SplitFrom(input, 0, maxChunkSize)

-----------------------------------------------------------------------------
(* The chunker applied to any text of at most MaxLen bytes over bytes that *)
(* make runes of one to four bytes and ill-formed text, with any budget up *)
(* to MaxChunk.                                                            *)

MaxLen == 5
MaxChunk == 4

\* 'a', a continuation byte, the lead bytes of 2, 3 and 4 byte runes, and 0xFF
ChunkBytes == {97, 130, 195, 226, 241, 255}

ChunkInputs == UNION {[1..n -> ChunkBytes] : n \in 0..MaxLen}

ChunkBudgets == (0 - 1)..MaxChunk

\* For the loop taken round by round: 'a', a continuation byte and the lead
\* bytes of 3 and 4 byte runes, which make runes, stray and cut-off bytes.
LoopBytes == {97, 130, 226, 241}

MaxLoopLen == 4

LoopInputs == UNION {[1..n -> LoopBytes] : n \in 0..MaxLoopLen}

\* A call of splitUTF8SafeChunks: its arguments, the loop variable start and
\* the chunks appended so far.
NewChk ==
    [pc |-> "new", input |-> <<>>, maxChunkSize |-> 64, start |-> 0, chunks |-> <<>>]

ChkSplit ==
    /\ chk.pc = "new"
    /\ chk' = [chk EXCEPT !.pc = "done",
                          !.chunks = splitUTF8SafeChunks(chk.input, chk.maxChunkSize)]
    /\ UNCHANGED <<seqVars, aggVars, rdrVars, asmVars, wsrVars, srvVars>>

ChkNext == ChkSplit

\* The same call round by round.  The body of the loop: the chunk from start
\* is cut, mended if it is not valid UTF-8, appended, and start moves to its
\* end.
SplitRound(c) ==
    LET end == ChunkEnd(c.input, c.start, c.maxChunkSize)
        chunk == Slice(c.input, c.start, end)
    IN [c EXCEPT !.chunks = Append(@, IF ValidString(chunk) THEN chunk
                                      ELSE ToValidUTF8(chunk, ReplacementChar)),
                 !.start = end]

ChkOthers == UNCHANGED <<seqVars, aggVars, rdrVars, asmVars, wsrVars, srvVars>>

\* The empty input returns at once, any other enters the loop at start 0.
ChkEnter ==
    /\ chk.pc = "new"
    /\ chk' = [chk EXCEPT !.pc = IF Len(chk.input) = 0 THEN "done" ELSE "loop"]
    /\ ChkOthers

ChkRound ==
    /\ chk.pc = "loop"
    /\ chk.start < Len(chk.input)
    /\ chk' = SplitRound(chk)
    /\ ChkOthers

\* The loop condition fails and the chunks are returned.
ChkReturn ==
    /\ chk.pc = "loop"
    /\ ~(chk.start < Len(chk.input))
    /\ chk' = [chk EXCEPT !.pc = "done"]
    /\ ChkOthers

ChkLoopNext ==
    \/ ChkEnter
    \/ ChkRound
    \/ ChkReturn

-----------------------------------------------------------------------------
(* processUnifiedResponse, the response assembler, with the content-block  *)
(* helpers.  A content block is a record; a text block has no ID, Name or  *)
(* Input and a tool_use block no Text.                                     *)

NilInput == [kind |-> "nil", text |-> <<>>]

TextBlock(text) ==
    [Type |-> "text", Text |-> text, ID |-> NoID, Name |-> "", Input |-> NilInput]

\* The text of the default block, "处理完成" in UTF-8.
PlaceholderText == <<229, 164, 132, 231, 144, 134, 229, 174, 140, 230, 136, 144>>

\* FastUnmarshal into a map: of the argument texts the fragments of this model
\* can make up (runs of {"a": and 1}), {"a":1} alone is a JSON object.
FastUnmarshalFails(argsStr) == argsStr # <<123, 34, 97, 34, 58, 49, 125>>

\* inputObj of buildToolCallBlocks: {} for blank arguments, the decoded object,
\* or {"raw_args": argsStr} when the arguments do not decode.
ToolInput(arguments) ==
    LET argsStr == TrimSpace(arguments)
    IN IF argsStr = <<>> THEN [kind |-> "empty", text |-> <<>>]
       ELSE IF FastUnmarshalFails(argsStr) THEN [kind |-> "raw_args", text |-> argsStr]
       ELSE [kind |-> "object", text |-> argsStr]

\* buildToolCallBlocks with the newest invocation first.
buildToolCallBlocksNewestFirst(order) ==
    LET named == SelectSeq(order, LAMBDA tool : tool.Name # "")
        n == Len(named)
    IN [i \in 1..n |->
           [Type |-> "tool_use", Text |-> <<>>, ID |-> named[n + 1 - i].ID,
            Name |-> named[n + 1 - i].Name,
            Input |-> ToolInput(named[n + 1 - i].Arguments)]]

RECURSIVE buildToolCallBlocks(_)
buildToolCallBlocks(order) ==
    IF order = <<>> THEN <<>>
    ELSE LET tool == Head(order)
         IN (IF tool.Name # ""
             THEN <<[Type |-> "tool_use", Text |-> <<>>, ID |-> tool.ID,
                     Name |-> tool.Name, Input |-> ToolInput(tool.Arguments)]>>
             ELSE <<>>)
            \o buildToolCallBlocks(Tail(order))

\* The filter of filterAndDefaultContent alone, without the default block.
FilterContentOnly(contentBlocks) ==
    SelectSeq(contentBlocks, LAMBDA b : b.Type # "text" \/ TrimSpace(b.Text) # <<>>)

filterAndDefaultContent(contentBlocks) ==
    LET filtered == IF Len(contentBlocks) > 0
                    THEN SelectSeq(contentBlocks,
                                   LAMBDA b : IF b.Type = "text"
                                              THEN TrimSpace(b.Text) # <<>>
                                              ELSE TRUE)
                    ELSE contentBlocks
    IN IF Len(filtered) = 0 THEN <<TextBlock(PlaceholderText)>> ELSE filtered

\* The index of the last text block, 0 when there is none.
RECURSIVE LastTextBlock(_, _)
LastTextBlock(contentBlocks, i) ==
    IF i = 0 THEN 0
    ELSE IF contentBlocks[i].Type = "text" THEN i
    ELSE LastTextBlock(contentBlocks, i - 1)

\* The text branch where a later text replaces the text of the block.
AccumulateTextReplacing(contentBlocks, contentStr) ==
    IF Len(contentBlocks) = 0 THEN <<TextBlock(contentStr)>>
    ELSE LET i == LastTextBlock(contentBlocks, Len(contentBlocks))
         IN IF i = 0 THEN contentBlocks
            ELSE [contentBlocks EXCEPT ![i].Text = contentStr]

\* The text branch of the loop: the first text opens a block, a later one is
\* added to the last text block.
AccumulateText(contentBlocks, contentStr) ==
    IF Len(contentBlocks) = 0 THEN <<TextBlock(contentStr)>>
    ELSE LET i == LastTextBlock(contentBlocks, Len(contentBlocks))
         IN IF i = 0 THEN contentBlocks
            ELSE [contentBlocks EXCEPT ![i].Text = @ \o contentStr]

ResponseData(messageID, messageModel, contentBlocks, stopReason, usage, isToolCall) ==
    [MessageID |-> messageID, MessageModel |-> messageModel,
     ContentBlocks |-> contentBlocks, StopReason |-> stopReason,
     Usage |-> usage, IsToolCall |-> isToolCall]

\* The local variables of processUnifiedResponse; result holds the ResponseData
\* returned (none while it runs or when it returned an error).
NewAsm ==
    [pc |-> "loop", messageID |-> "", messageModel |-> "", contentBlocks |-> <<>>,
     stopReason |-> "end_turn", usage |-> "nil", isToolCall |-> FALSE,
     result |-> <<>>, err |-> "nil"]

\* What follows the loop where the tool blocks are added to the text.
AsmReturnKeepingText(a, sess) ==
    LET toolBlocks == a.isToolCall /\ Len(sess.toolCallsOrder) > 0
        blocks == IF toolBlocks
                  THEN a.contentBlocks \o buildToolCallBlocks(sess.toolCallsOrder)
                  ELSE a.contentBlocks
        stopReason == IF toolBlocks THEN "tool_use" ELSE a.stopReason
        messageID == IF a.messageID = "" THEN "msg_generated" ELSE a.messageID
        messageModel == IF a.messageModel = "" THEN "claude-unknown" ELSE a.messageModel
    IN [a EXCEPT !.pc = "returned",
                 !.result = <<ResponseData(messageID, messageModel,
                                           filterAndDefaultContent(blocks),
                                           stopReason, a.usage, a.isToolCall)>>]

\* What follows the loop: the tool blocks, the filter, the defaults, the return.
AsmReturn(a, sess) ==
    LET toolBlocks == a.isToolCall /\ Len(sess.toolCallsOrder) > 0
        blocks == IF toolBlocks THEN buildToolCallBlocks(sess.toolCallsOrder)
                  ELSE a.contentBlocks
        stopReason == IF toolBlocks THEN "tool_use" ELSE a.stopReason
        messageID == IF a.messageID = "" THEN "msg_generated" ELSE a.messageID
        messageModel == IF a.messageModel = "" THEN "claude-unknown" ELSE a.messageModel
    IN [a EXCEPT !.pc = "returned",
                 !.result = <<ResponseData(messageID, messageModel,
                                           filterAndDefaultContent(blocks),
                                           stopReason, a.usage, a.isToolCall)>>]

\* The stream-end signals: [DONE] and finish_reason:<r>.
AsmFinishSignal(a, r) ==
    IF r = "tool_calls" THEN [a EXCEPT !.isToolCall = TRUE, !.stopReason = "tool_use"]
    ELSE IF r = "stop" THEN [a EXCEPT !.stopReason = "end_turn"]
    ELSE a

\* A decoded chunk where free text is accumulated in invocation-mode as well.
AsmChunkTextAlways(a, sess, chunk) ==
    LET a1 == IF chunk.Usage # "nil" THEN [a EXCEPT !.usage = chunk.Usage] ELSE a
        a2 == IF Len(chunk.Choices) > 0 /\ a1.messageID = ""
              THEN [a1 EXCEPT !.messageID = chunk.ID, !.messageModel = chunk.Model]
              ELSE a1
    IN IF Len(chunk.Choices) = 0 THEN [asm |-> a2, sess |-> sess, tool |-> "none"]
       ELSE LET choice == chunk.Choices[1]
                delta == choice.Delta
            IN IF (~delta.isNil /\ ~delta.ToolCallsNil /\ Len(delta.ToolCalls) > 0)
                  \/ choice.FinishReason = "tool_calls"
               THEN LET r == processToolCallsUnified(sess, choice)
                    IN [asm |-> IF choice.FinishReason = "tool_calls"
                                THEN [a2 EXCEPT !.isToolCall = TRUE,
                                                !.stopReason = "tool_use"]
                                ELSE a2,
                        sess |-> r.sess, tool |-> r.ret]
               ELSE IF ~delta.isNil /\ delta.Content.kind = "string"
                       /\ delta.Content.text # <<>>
                    THEN [asm |-> [a2 EXCEPT !.contentBlocks =
                                       AccumulateText(@, delta.Content.text)],
                          sess |-> sess, tool |-> "none"]
                    ELSE [asm |-> a2, sess |-> sess, tool |-> "none"]

\* A decoded chunk: the assembler and the session after it, and what
\* ProcessToolCalls returned ("none" when it was not called).
AsmChunk(a, sess, chunk) ==
    LET a1 == IF chunk.Usage # "nil" THEN [a EXCEPT !.usage = chunk.Usage] ELSE a
        a2 == IF Len(chunk.Choices) > 0 /\ a1.messageID = ""
              THEN [a1 EXCEPT !.messageID = chunk.ID, !.messageModel = chunk.Model]
              ELSE a1
    IN IF Len(chunk.Choices) = 0 THEN [asm |-> a2, sess |-> sess, tool |-> "none"]
       ELSE LET choice == chunk.Choices[1]
                delta == choice.Delta
            IN IF (~delta.isNil /\ ~delta.ToolCallsNil /\ Len(delta.ToolCalls) > 0)
                  \/ choice.FinishReason = "tool_calls"
               THEN LET r == processToolCallsUnified(sess, choice)
                    IN [asm |-> IF choice.FinishReason = "tool_calls"
                                THEN [a2 EXCEPT !.isToolCall = TRUE,
                                                !.stopReason = "tool_use"]
                                ELSE a2,
                        sess |-> r.sess, tool |-> r.ret]
               ELSE IF ~delta.isNil /\ delta.Content.kind = "string"
                       /\ ~a2.isToolCall /\ delta.Content.text # <<>>
                    THEN [asm |-> [a2 EXCEPT !.contentBlocks =
                                       AccumulateText(@, delta.Content.text)],
                          sess |-> sess, tool |-> "none"]
                    ELSE [asm |-> a2, sess |-> sess, tool |-> "none"]

-----------------------------------------------------------------------------
(* The assembler fed by an arbitrary upstream.  What NextEvent hands over  *)
(* is an event already classified (blank, without prefix, [DONE], a        *)
(* finish_reason signal, text that does not decode, or a decoded chunk) or *)
(* an error; upstream logs each with what ProcessToolCalls returned.       *)

MaxUpstream == 2

Chunk(id, model, choices, usage) ==
    [ID |-> id, Model |-> model, Choices |-> choices, Usage |-> usage]

AsmToolCalls ==
    {<<[ID |-> 1, Name |-> "f", Arguments |-> ArgsOpen]>>,
     <<[ID |-> NoID, Name |-> "", Arguments |-> ArgsClose]>>,
     <<[ID |-> 2, Name |-> "", Arguments |-> ArgsClose]>>}

AsmTexts == {<<32>>, <<97>>}

AsmChoices ==
    {ToolCallsChoice(calls) : calls \in AsmToolCalls}
        \cup {DeltaChoice(TRUE, <<>>, StringContent(t), "nil") : t \in AsmTexts \cup {<<>>}}
        \cup {DeltaChoice(TRUE, <<>>, OtherContent, "stop"),
              DeltaChoice(FALSE, <<>>, NilContent, "tool_calls"),
              DeltaChoice(FALSE, <<[ID |-> 1, Name |-> "f", Arguments |-> ArgsOpen]>>,
                          StringContent(<<97>>), "nil"),
              DeltaChoice(FALSE, <<[ID |-> 1, Name |-> "f", Arguments |-> ArgsOpen]>>,
                          NilContent, "tool_calls"),
              NilDeltaChoice("tool_calls")}

AsmChunks ==
    {Chunk("chatcmpl_1", "model_1", <<c>>, "nil") : c \in AsmChoices}
        \cup {Chunk("", "", <<ToolCallsChoice(<<[ID |-> 2, Name |-> "g", Arguments |-> <<>>]>>)>>,
                    "nil"),
              Chunk("chatcmpl_1", "model_1", <<>>, "usage_1")}

AsmSignals ==
    {[kind |-> k, reason |-> ""] : k \in {"blank", "unprefixed", "done", "undecodable"}}
        \cup {[kind |-> "finish_reason", reason |-> r] : r \in {"tool_calls", "stop", "length"}}

AsmOthers == UNCHANGED <<seqVars, aggCall, absorbed, rdrVars, chkVars, wsrVars, srvVars>>

\* What the events consumed so far count against MaxUpstream; the flood is free.
AsmCost == Cardinality({i \in 1..Len(upstream) : upstream[i].ev.kind # "flood"})

\* One round of the loop on an event that is no chunk: nothing, or a signal.
AsmSignal ==
    /\ asm.pc = "loop"
    /\ AsmCost < MaxUpstream
    /\ \E ev \in AsmSignals :
           /\ asm' = IF ev.kind = "finish_reason"
                     THEN AsmFinishSignal(asm, ev.reason) ELSE asm
           /\ upstream' = Append(upstream, [ev |-> ev, tool |-> "none"])
    /\ UNCHANGED session
    /\ AsmOthers

AsmDeliver(kind, chunk) ==
    LET r == AsmChunk(asm, session, chunk)
    IN /\ asm' = r.asm
       /\ session' = r.sess
       /\ upstream' = Append(upstream, [ev |-> [kind |-> kind, chunk |-> chunk],
                                        tool |-> r.tool])

\* One round of the loop on a decoded chunk.
AsmDecodedChunk ==
    /\ asm.pc = "loop"
    /\ AsmCost < MaxUpstream
    /\ \E chunk \in AsmChunks : AsmDeliver("chunk", chunk)
    /\ AsmOthers

\* The same on the chunk that carries FloodLen new identifiers.
AsmFloodChunk ==
    /\ asm.pc = "loop"
    /\ \A i \in 1..Len(upstream) : upstream[i].ev.kind # "flood"
    /\ AsmDeliver("flood", Chunk("chatcmpl_1", "model_1", <<ToolCallsChoice(FloodChunk)>>, "nil"))
    /\ AsmOthers

\* The error branch where only io.EOF leaves the loop.
AsmReaderErrorEOFOnly(a, sess, err) ==
    IF err = "EOF" THEN AsmReturn(a, sess)
    ELSE [a EXCEPT !.pc = "returned", !.err = "stream parsing failed"]

\* The error branch of the loop: io.EOF, context.Canceled and
\* context.DeadlineExceeded leave the loop, any other error is returned as
\* "stream parsing failed" with no ResponseData.
AsmReaderError(a, sess, err) ==
    IF err = "EOF" THEN AsmReturn(a, sess)
    ELSE IF err = "context.Canceled" \/ err = "context.DeadlineExceeded"
         THEN AsmReturn(a, sess)
    ELSE [a EXCEPT !.pc = "returned", !.err = "stream parsing failed"]

\* NextEvent returns io.EOF, context.Canceled or context.DeadlineExceeded: the
\* loop is left and the ResponseData is built and returned.
AsmBreak ==
    /\ asm.pc = "loop"
    /\ \E e \in {"EOF", "context.Canceled", "context.DeadlineExceeded"} :
           /\ upstream' = Append(upstream, [ev |-> [kind |-> e], tool |-> "none"])
           /\ asm' = AsmReaderError(asm, session, e)
    /\ UNCHANGED session
    /\ AsmOthers

\* NextEvent returns another error: nil and "stream parsing failed".
AsmParseError ==
    /\ asm.pc = "loop"
    /\ asm' = AsmReaderError(asm, session, "error")
    /\ upstream' = Append(upstream, [ev |-> [kind |-> "error"], tool |-> "none"])
    /\ UNCHANGED session
    /\ AsmOthers

AsmNext ==
    \/ AsmSignal
    \/ AsmDecodedChunk
    \/ AsmFloodChunk
    \/ AsmBreak
    \/ AsmParseError

-----------------------------------------------------------------------------
(* writeStreamResponse, the streaming adapter.  It runs in steps: the      *)
(* flusher check, the opening frame, one round of the loop per content     *)
(* block, the closing call and the deferred function.  A panic in the body *)
(* after the defer statement runs the deferred function next.              *)

\* JSON string escaping of the bytes that occur: '"' and '\'.
RECURSIVE EscapeJSON(_)
EscapeJSON(t) ==
    IF t = <<>> THEN <<>>
    ELSE (IF Head(t) \in {34, 92} THEN <<92, Head(t)>> ELSE <<Head(t)>>)
             \o EscapeJSON(Tail(t))

\* FastMarshal of a block's Input: {} , the object, or {"raw_args":"..."}.
FastMarshal(input) ==
    IF input.kind = "empty" THEN <<123, 125>>
    ELSE IF input.kind = "object" THEN input.text
    ELSE <<123, 34, 114, 97, 119, 95, 97, 114, 103, 115, 34, 58, 34>>
             \o EscapeJSON(input.text) \o <<34, 125>>

\* One content_block_delta frame per chunk that is not empty.
DeltaFrames(idx, deltaType, chunks) ==
    LET kept == SelectSeq(chunks, LAMBDA chunk : chunk # <<>>)
    IN [i \in 1..Len(kept) |-> FormatContentBlockDelta(idx, deltaType, kept[i])]

ToolUseStart(idx, block) ==
    FormatContentBlockStart(idx, "tool_use", <<block.ID, block.Name>>)

\* One round of the tool-call loop that leaves out the content_block_stop.
EmitToolUseUnclosed(s, w, idx, block) ==
    IF block.Type = "tool_use"
    THEN [s |-> s,
          w |-> Append(w, ToolUseStart(idx, block))
                  \o (IF block.Input.kind # "nil"
                      THEN DeltaFrames(idx, "input_json_delta",
                                       splitUTF8SafeChunks(FastMarshal(block.Input), 64))
                      ELSE <<>>)]
    ELSE [s |-> s, w |-> w]

\* One round of the tool-call loop: the frames are written to the writer
\* directly, the sequencer is not told.
EmitToolUse(s, w, idx, block) ==
    IF block.Type = "tool_use"
    THEN [s |-> s,
          w |-> Append(w, ToolUseStart(idx, block))
                  \o (IF block.Input.kind # "nil"
                      THEN DeltaFrames(idx, "input_json_delta",
                                       splitUTF8SafeChunks(FastMarshal(block.Input), 64))
                      ELSE <<>>)
                  \o <<FormatContentBlockStop(idx)>>]
    ELSE [s |-> s, w |-> w]

\* One round of the text loop: the block is opened and closed by the sequencer.
EmitText(s, w, idx, block) ==
    IF block.Type = "text" /\ TrimSpace(block.Text) # <<>>
    THEN LET r1 == EnsureContentBlockStart(s, w, "text")
             w2 == r1.w \o DeltaFrames(idx, "text_delta",
                                       splitUTF8SafeChunks(block.Text, 64))
             r3 == FinishContentBlock(r1.s, w2)
         IN [s |-> r3.s, w |-> r3.w]
    ELSE [s |-> s, w |-> w]

\* The same rounds cut short by a panic after the block was opened.
EmitOpened(s, w, idx, block, isToolCall) ==
    IF isToolCall
    THEN [s |-> s, w |-> IF block.Type = "tool_use"
                         THEN Append(w, ToolUseStart(idx, block)) ELSE w]
    ELSE IF block.Type = "text" /\ TrimSpace(block.Text) # <<>>
         THEN LET r1 == EnsureContentBlockStart(s, w, "text")
              IN [s |-> r1.s, w |-> r1.w]
         ELSE [s |-> s, w |-> w]

\* The deferred function left out.
DeferredGuardAbsent(s, w, stopReason) == [s |-> s, w |-> w, ret |-> FALSE]

\* The deferred function: FinishStream unless the stream is finished.
DeferredGuard(s, w, stopReason) ==
    IF ~IsFinished(s) THEN FinishStream(s, w, stopReason)
    ELSE [s |-> s, w |-> w, ret |-> FALSE]

ToolUseBlock(id, name, arguments) ==
    [Type |-> "tool_use", Text |-> <<>>, ID |-> id, Name |-> name,
     Input |-> ToolInput(arguments)]

\* The ResponseData the assembler hands over: text, the default block, or the
\* tool calls of a response in tool-call mode.
\* A text longer than one chunk of 64 bytes.
LongText == [i \in 1..65 |-> 97]

StreamTexts ==
    {<<TextBlock(<<97>>)>>, <<TextBlock(LongText)>>, <<TextBlock(PlaceholderText)>>}

StreamTools ==
    {<<ToolUseBlock(1, "f", ArgsOpen \o ArgsClose)>>,
     <<ToolUseBlock(1, "f", ArgsClose), ToolUseBlock(2, "g", <<>>)>>}

StreamDatas ==
    {ResponseData(m[1], m[2], blocks, stopReason, usage, isToolCall) :
        m \in {<<"msg_generated", "claude-unknown">>, <<"chatcmpl_1", "model_1">>},
        blocks \in StreamTexts, stopReason \in {"end_turn"},
        usage \in {"nil", "usage_1"}, isToolCall \in BOOLEAN}
    \cup
    {ResponseData(m[1], m[2], blocks, "tool_use", usage, TRUE) :
        m \in {<<"msg_generated", "claude-unknown">>, <<"chatcmpl_1", "model_1">>},
        blocks \in StreamTexts \cup StreamTools,
        usage \in {"nil", "usage_1"}}

NewWsr(data) ==
    [pc |-> "entry", data |-> data, idx |-> 0, created |-> FALSE, panicked |-> FALSE]

WsrOthers == UNCHANGED <<seqCall, aggVars, rdrVars, asmVars, chkVars, srvVars>>

\* The flusher check: without a flusher an error is answered and nothing is
\* streamed; with one the sequencer is created and the function deferred.
WsrEnter ==
    /\ wsr.pc = "entry"
    /\ \E ok \in BOOLEAN :
           wsr' = [wsr EXCEPT !.pc = IF ok THEN "messageStart" ELSE "done",
                              !.created = ok]
    /\ streamState' = NewSSEStreamState
    /\ UNCHANGED frames
    /\ WsrOthers

WsrMessageStart ==
    /\ wsr.pc = "messageStart"
    /\ LET r == EnsureMessageStart(streamState, frames,
                                   wsr.data.MessageID, wsr.data.MessageModel)
       IN streamState' = r.s /\ frames' = r.w
    /\ wsr' = [wsr EXCEPT !.pc = "blocks"]
    /\ WsrOthers

\* One round of the loop over data.ContentBlocks.
WsrBlock ==
    /\ wsr.pc = "blocks"
    /\ wsr.idx < Len(wsr.data.ContentBlocks)
    /\ LET block == wsr.data.ContentBlocks[wsr.idx + 1]
           r == IF wsr.data.IsToolCall
                THEN EmitToolUse(streamState, frames, wsr.idx, block)
                ELSE EmitText(streamState, frames, wsr.idx, block)
       IN streamState' = r.s /\ frames' = r.w
    /\ wsr' = [wsr EXCEPT !.idx = @ + 1]
    /\ WsrOthers

\* The closing call, FinishStreamWithUsage, with which the body ends.
WsrFinish ==
    /\ wsr.pc = "blocks"
    /\ wsr.idx = Len(wsr.data.ContentBlocks)
    /\ LET r == FinishStreamWithUsage(streamState, frames,
                                      wsr.data.StopReason, wsr.data.Usage)
       IN streamState' = r.s /\ frames' = r.w
    /\ wsr' = [wsr EXCEPT !.pc = "deferred"]
    /\ WsrOthers

\* A panic between two steps of the body.
WsrPanic ==
    /\ wsr.pc \in {"messageStart", "blocks"}
    /\ wsr' = [wsr EXCEPT !.pc = "deferred", !.panicked = TRUE]
    /\ UNCHANGED <<streamState, frames>>
    /\ WsrOthers

\* A panic inside a round of the loop, after the block was opened.
WsrPanicInBlock ==
    /\ wsr.pc = "blocks"
    /\ wsr.idx < Len(wsr.data.ContentBlocks)
    /\ LET r == EmitOpened(streamState, frames, wsr.idx,
                           wsr.data.ContentBlocks[wsr.idx + 1], wsr.data.IsToolCall)
       IN streamState' = r.s /\ frames' = r.w
    /\ wsr' = [wsr EXCEPT !.pc = "deferred", !.panicked = TRUE]
    /\ WsrOthers

WsrDeferred ==
    /\ wsr.pc = "deferred"
    /\ LET r == DeferredGuard(streamState, frames, wsr.data.StopReason)
       IN streamState' = r.s /\ frames' = r.w
    /\ wsr' = [wsr EXCEPT !.pc = "done"]
    /\ WsrOthers

WsrNext ==
    \/ WsrEnter
    \/ WsrMessageStart
    \/ WsrBlock
    \/ WsrFinish
    \/ WsrPanic
    \/ WsrPanicInBlock
    \/ WsrDeferred

-----------------------------------------------------------------------------
(* The router of main and AuthMiddleware.  Header values and tokens are    *)
(* byte sequences; a header that is absent is the empty sequence, as       *)
(* c.GetHeader returns it.                                                 *)

HasPrefix(s, prefix) ==
    Len(s) >= Len(prefix) /\ SubSeq(s, 1, Len(prefix)) = prefix

TrimPrefix(s, prefix) ==
    IF HasPrefix(s, prefix) THEN SubSeq(s, Len(prefix) + 1, Len(s)) ELSE s

\* "Bearer "
BearerPrefix == <<66, 101, 97, 114, 101, 114, 32>>

StatusOK == 200
StatusUnauthorized == 401
StatusInternalServerError == 500

\* AuthMiddleware that compares no token: any Bearer header is let through.
AuthMiddlewareAnyBearer(apiKey, authHeader, expectedToken) ==
    IF expectedToken = <<>>
    THEN [next |-> FALSE, status |-> StatusInternalServerError,
          error |-> "Server configuration error"]
    ELSE IF apiKey # <<>> /\ apiKey = expectedToken
    THEN [next |-> TRUE, status |-> 0, error |-> ""]
    ELSE IF authHeader = <<>>
    THEN [next |-> FALSE, status |-> StatusUnauthorized,
          error |-> "Authorization header or X-API-Key required"]
    ELSE IF ~HasPrefix(authHeader, BearerPrefix)
    THEN [next |-> FALSE, status |-> StatusUnauthorized,
          error |-> "Invalid authorization header format"]
    ELSE [next |-> TRUE, status |-> 0, error |-> ""]

\* AuthMiddleware: next is c.Next(), otherwise the answer written before
\* c.Abort().
AuthMiddleware(apiKey, authHeader, expectedToken) ==
    IF expectedToken = <<>>
    THEN [next |-> FALSE, status |-> StatusInternalServerError,
          error |-> "Server configuration error"]
    ELSE IF apiKey # <<>> /\ apiKey = expectedToken
    THEN [next |-> TRUE, status |-> 0, error |-> ""]
    ELSE IF authHeader = <<>>
    THEN [next |-> FALSE, status |-> StatusUnauthorized,
          error |-> "Authorization header or X-API-Key required"]
    ELSE IF ~HasPrefix(authHeader, BearerPrefix)
    THEN [next |-> FALSE, status |-> StatusUnauthorized,
          error |-> "Invalid authorization header format"]
    ELSE IF TrimPrefix(authHeader, BearerPrefix) # expectedToken
    THEN [next |-> FALSE, status |-> StatusUnauthorized, error |-> "Invalid token"]
    ELSE [next |-> TRUE, status |-> 0, error |-> ""]

\* Two values of CODEBUDDY2CC_AUTH: "s" and "t".  main does not start the
\* server with the variable empty.
Token1 == <<115>>
Token2 == <<116>>
Tokens == {Token1, Token2}

\* The routes of the group /v1, which uses AuthMiddleware, and the routes
\* registered on the router itself.
V1Routes == {"POST /v1/messages", "GET /v1/models"}
OpenRoutes == {"GET /health", "GET /service/info"}

APIKeyHeaders == {<<>>} \cup Tokens

\* absent, "Bearer <token>", "<token>", "bearer <token>", "Bearer  <token>", "Bearer "
AuthorizationHeaders ==
    {<<>>, BearerPrefix}
    \cup {BearerPrefix \o t : t \in Tokens}
    \cup Tokens
    \cup {<<98>> \o Tail(BearerPrefix) \o t : t \in Tokens}
    \cup {BearerPrefix \o <<32>> \o t : t \in Tokens}

Requests ==
    [route : V1Routes \cup OpenRoutes, apiKey : APIKeyHeaders,
     authorization : AuthorizationHeaders]

NoRequest == [route |-> "", apiKey |-> <<>>, authorization |-> <<>>]

NewAuth(token) ==
    [pc |-> "idle", expectedToken |-> token, request |-> NoRequest,
     handler |-> "none", status |-> 0, error |-> ""]

AuthOthers ==
    UNCHANGED <<seqVars, aggVars, rdrVars, asmVars, chkVars, wsrVars, hdl, reqs, cnv, proc>>

\* A request for a route of the group /v1 arrives: its chain starts with the
\* middleware.
AuthRouteV1 ==
    /\ auth.pc = "idle"
    /\ \E r \in Requests :
           /\ r.route \in V1Routes
           /\ auth' = [NewAuth(auth.expectedToken) EXCEPT !.pc = "middleware",
                                                          !.request = r]
    /\ AuthOthers

\* A request for /health or /service/info arrives: its chain is the handler.
AuthRouteOpen ==
    /\ auth.pc = "idle"
    /\ \E r \in Requests :
           /\ r.route \in OpenRoutes
           /\ auth' = [NewAuth(auth.expectedToken) EXCEPT !.pc = "handler",
                                                          !.request = r]
    /\ AuthOthers

AuthCheck ==
    /\ auth.pc = "middleware"
    /\ LET r == AuthMiddleware(auth.request.apiKey, auth.request.authorization,
                               auth.expectedToken)
       IN auth' = IF r.next THEN [auth EXCEPT !.pc = "handler"]
                  ELSE [auth EXCEPT !.pc = "answered", !.status = r.status,
                                    !.error = r.error]
    /\ AuthOthers

\* The handler of the route runs; the answer is the handler's own (status 0
\* here: the middleware wrote none).
AuthHandle ==
    /\ auth.pc = "handler"
    /\ auth' = [auth EXCEPT !.pc = "answered", !.handler = auth.request.route]
    /\ AuthOthers

\* The answer is sent; the router waits for the next request.
AuthAnswered ==
    /\ auth.pc = "answered"
    /\ auth' = [auth EXCEPT !.pc = "idle"]
    /\ AuthOthers

AuthNext ==
    \/ AuthRouteV1
    \/ AuthRouteOpen
    \/ AuthCheck
    \/ AuthHandle
    \/ AuthAnswered

-----------------------------------------------------------------------------
(* MessagesHandler.                                                        *)

StatusBadRequest == 400
StatusBadGateway == 502

\* What the handler has written to the client: nothing yet, a JSON error of
\* its own (c.JSON) or bytes handed through (c.Data).
NoAnswer == [status |-> 0, contentType |-> "", body |-> ""]

JSONError(status, message) ==
    [status |-> status, contentType |-> "application/json", body |-> message]

\* The upstream response: its status, its body, and whether reading the body
\* to its end fails.
NoResponse == [status |-> 0, body |-> "", readFails |-> FALSE]

UpstreamStatuses == {200, 201, 204, 400, 401, 429, 500, 503}

UpstreamBodies == {"", "{error}", "<html>"}

UpstreamResponses ==
    [status : UpstreamStatuses, body : UpstreamBodies, readFails : BOOLEAN]

NewHdl ==
    [pc |-> "idle", stream |-> FALSE, resp |-> NoResponse, answer |-> NoAnswer,
     pipeline |-> FALSE, adapter |-> "none"]

\* The branch on resp.StatusCode that hands through only a status of 400 or
\* more.
PassThroughErrorsOnly(resp) ==
    IF resp.status >= StatusBadRequest
    THEN [return |-> TRUE,
          answer |-> IF resp.readFails
                     THEN JSONError(StatusInternalServerError,
                                    "Failed to read error response")
                     ELSE [status |-> resp.status, contentType |-> "application/json",
                           body |-> resp.body]]
    ELSE [return |-> FALSE, answer |-> NoAnswer]

\* The branch on resp.StatusCode: with a status other than 200 the body is
\* read and handed to the client with the upstream's status, and the handler
\* returns.
PassThroughNon200(resp) ==
    IF resp.status # StatusOK
    THEN [return |-> TRUE,
          answer |-> IF resp.readFails
                     THEN JSONError(StatusInternalServerError,
                                    "Failed to read error response")
                     ELSE [status |-> resp.status, contentType |-> "application/json",
                           body |-> resp.body]]
    ELSE [return |-> FALSE, answer |-> NoAnswer]

HdlOthers ==
    UNCHANGED <<seqVars, aggVars, rdrVars, asmVars, chkVars, wsrVars, auth, reqs, cnv, proc>>

\* The request body is bound; a body that does not bind is answered 400.
HdlBind ==
    /\ hdl.pc = "idle"
    /\ \E ok \in BOOLEAN, stream \in BOOLEAN :
           hdl' = IF ok THEN [NewHdl EXCEPT !.pc = "prepare", !.stream = stream]
                  ELSE [NewHdl EXCEPT !.pc = "returned",
                                      !.answer = JSONError(StatusBadRequest,
                                                           "Invalid request format")]
    /\ HdlOthers

\* From ValidateAndFixToolResults to the upstream key: each step that fails
\* answers 500.
HdlPrepare ==
    /\ hdl.pc = "prepare"
    /\ \E failure \in {"", "Tool results validation failed", "Request conversion failed",
                       "Failed to encode request", "Failed to create upstream request",
                       "CODEBUDDY2CC_KEY not configured"} :
           hdl' = IF failure = "" THEN [hdl EXCEPT !.pc = "do"]
                  ELSE [hdl EXCEPT !.pc = "returned",
                                   !.answer = JSONError(StatusInternalServerError, failure)]
    /\ HdlOthers

\* client.Do: an error is answered 502, otherwise there is a response.
HdlDo ==
    /\ hdl.pc = "do"
    /\ \/ hdl' = [hdl EXCEPT !.pc = "returned",
                             !.answer = JSONError(StatusBadGateway, "Request failed")]
       \/ \E resp \in UpstreamResponses :
              hdl' = [hdl EXCEPT !.pc = "status", !.resp = resp]
    /\ HdlOthers

HdlStatus ==
    /\ hdl.pc = "status"
    /\ LET r == PassThroughNon200(hdl.resp)
       IN hdl' = IF r.return THEN [hdl EXCEPT !.pc = "returned", !.answer = r.answer]
                 ELSE [hdl EXCEPT !.pc = "process"]
    /\ HdlOthers

\* The check of processUnifiedResponse's error that answers 500 and goes on
\* to the adapters all the same.
ProcessedNoReturn(h, failed) ==
    IF failed
    THEN [h EXCEPT !.pc = "write", !.pipeline = TRUE,
                   !.answer = JSONError(StatusInternalServerError,
                                        "Response processing failed")]
    ELSE [h EXCEPT !.pc = "write", !.pipeline = TRUE]

\* What follows the call of processUnifiedResponse: its error is answered 500
\* and the handler returns, otherwise the adapters are next.
Processed(h, failed) ==
    IF failed
    THEN [h EXCEPT !.pc = "returned", !.pipeline = TRUE,
                   !.answer = JSONError(StatusInternalServerError,
                                        "Response processing failed")]
    ELSE [h EXCEPT !.pc = "write", !.pipeline = TRUE]

\* processUnifiedResponse is called: the core pipeline runs on the response.
HdlProcess ==
    /\ hdl.pc = "process"
    /\ \E failed \in BOOLEAN : hdl' = Processed(hdl, failed)
    /\ HdlOthers

\* The result is written by the adapter the client asked for.
HdlWrite ==
    /\ hdl.pc = "write"
    /\ hdl' = [hdl EXCEPT !.pc = "returned",
                          !.adapter = IF hdl.stream THEN "writeStreamResponse"
                                      ELSE "writeNonStreamResponse"]
    /\ HdlOthers

\* The handler has returned; the next request is handled from the start.
HdlReturned ==
    /\ hdl.pc = "returned"
    /\ hdl' = [hdl EXCEPT !.pc = "idle"]
    /\ HdlOthers

HdlNext ==
    \/ HdlBind
    \/ HdlPrepare
    \/ HdlDo
    \/ HdlStatus
    \/ HdlProcess
    \/ HdlWrite
    \/ HdlReturned

-----------------------------------------------------------------------------
(* Two requests at once.                                                   *)

MaxRounds == 2

RequestIDs == {1, 2}

\* What a request owns: the locals of its processUnifiedResponse (asm), the
\* session of the manager made for it (sess), and the events its own reader
\* has handed over (events).  overlap is set when the request takes a step
\* while the other one is in the middle of its loop.
NewReqs ==
    [r \in RequestIDs |->
        [asm |-> NewAsm, sess |-> newToolCallsSession, events |-> <<>>,
         overlap |-> FALSE]]

ReqEvents ==
    {[kind |-> "finish_reason", reason |-> "tool_calls"],
     [kind |-> "chunk",
      chunk |-> Chunk("chatcmpl_1", "model_1",
                      <<ToolCallsChoice(<<[ID |-> 1, Name |-> "f",
                                           Arguments |-> ArgsOpen]>>)>>, "nil")],
     [kind |-> "chunk",
      chunk |-> Chunk("chatcmpl_2", "model_2",
                      <<ToolCallsChoice(<<[ID |-> NoID, Name |-> "",
                                           Arguments |-> ArgsClose]>>)>>, "nil")],
     [kind |-> "chunk",
      chunk |-> Chunk("chatcmpl_3", "model_3",
                      <<DeltaChoice(TRUE, <<>>, StringContent(<<97>>), "nil")>>, "nil")]}

\* One round of the loop of processUnifiedResponse on an event.
ReqRound(a, sess, ev) ==
    IF ev.kind = "finish_reason"
    THEN [asm |-> AsmFinishSignal(a, ev.reason), sess |-> sess]
    ELSE LET r == AsmChunk(a, sess, ev.chunk) IN [asm |-> r.asm, sess |-> r.sess]

\* One session for the whole process, used by every request.
SessionOfProcess(rs, r) == rs[1].sess

\* The session request r works on: the one NewDefaultToolCallManager made
\* for it.
SessionOf(rs, r) == rs[r].sess

Overlaps(rs, r) ==
    \E o \in RequestIDs \ {r} : rs[o].asm.pc = "loop" /\ rs[o].events # <<>>

ReqOthers ==
    UNCHANGED <<seqVars, aggVars, rdrVars, asmVars, chkVars, wsrVars, auth, hdl, cnv, proc>>

\* Request r consumes the next event of its upstream.
ReqDeliver(r) ==
    /\ reqs[r].asm.pc = "loop"
    /\ Len(reqs[r].events) < MaxRounds
    /\ \E ev \in ReqEvents :
           LET st == ReqRound(reqs[r].asm, SessionOf(reqs, r), ev)
           IN reqs' = [reqs EXCEPT ![r] = [asm |-> st.asm, sess |-> st.sess,
                                           events |-> Append(@.events, ev),
                                           overlap |-> @.overlap \/ Overlaps(reqs, r)]]
    /\ ReqOthers

\* Request r's upstream ends: its result is built and returned.
ReqBreak(r) ==
    /\ reqs[r].asm.pc = "loop"
    /\ reqs' = [reqs EXCEPT ![r].asm = AsmReturn(@, SessionOf(reqs, r)),
                            ![r].overlap = @ \/ Overlaps(reqs, r)]
    /\ ReqOthers

ReqNext ==
    \/ \E r \in RequestIDs : ReqDeliver(r)
    \/ \E r \in RequestIDs : ReqBreak(r)

-----------------------------------------------------------------------------
(* ConvertOpenAIStreamToAnthropic, the stateless event interpreter.  An    *)
(* event is its text and what FastUnmarshal makes of its payload: a chunk, *)
(* or NoJSON when the payload does not decode.                             *)

MaxConverted == 2

NoJSON == [ID |-> "", Model |-> "", Choices |-> <<>>, Usage |-> "undecodable"]

\* Events without the prefix, the end-of-stream sentinel, payloads that do
\* not decode (empty, "x", "{x "), and the chunks of AsmChunks.
CnvEvents ==
    {[line |-> l, json |-> NoJSON] :
        l \in {<<>>, <<58, 107>>, PayloadJSON, DataDone, DataMarker,
               DataMarker \o <<120>>, DataMarker \o <<123, 120, 32>>}}
        \cup {[line |-> DataMarker \o PayloadJSON, json |-> c] : c \in AsmChunks}

CnvReturn(out, text, err) == [out |-> out, text |-> text, err |-> err]

\* What the converter returns: the event string (here its kind and its load)
\* and the error.
ConvertOpenAIStreamToAnthropic(openAIChunk) ==
    IF ~HasPrefix(openAIChunk.line, DataMarker) THEN CnvReturn("", <<>>, "nil")
    ELSE LET data == TrimSpace(TrimPrefix(openAIChunk.line, DataMarker))
             chunk == openAIChunk.json
         IN IF data = PayloadDone THEN CnvReturn("event", openAIChunk.line, "nil")
            ELSE IF chunk = NoJSON
                 THEN CnvReturn("", <<>>, "failed to unmarshal OpenAI chunk")
            ELSE IF Len(chunk.Choices) = 0 THEN CnvReturn("", <<>>, "nil")
            ELSE LET choice == chunk.Choices[1]
                     delta == choice.Delta
                 IN IF choice.FinishReason # "nil"
                    THEN CnvReturn("internal:finish_reason:", choice.FinishReason, "nil")
                    ELSE IF ~delta.isNil /\ delta.Content.kind = "string"
                            /\ delta.Content.text # <<>>
                         THEN CnvReturn(SSEEventContentBlockDelta, delta.Content.text, "nil")
                    ELSE IF ~delta.isNil /\ ~delta.ToolCallsNil /\ Len(delta.ToolCalls) > 0
                         THEN CnvReturn("internal:tool_calls:", delta.ToolCalls, "nil")
                    ELSE CnvReturn("", <<>>, "nil")

\* The converter is called on the next event of a stream.
CnvConvert ==
    /\ Len(cnv) < MaxConverted
    /\ \E ev \in CnvEvents :
           cnv' = Append(cnv, [ev |-> ev, ret |-> ConvertOpenAIStreamToAnthropic(ev)])
    /\ UNCHANGED <<seqVars, aggVars, rdrVars, asmVars, chkVars, wsrVars, auth, hdl, reqs, proc>>

CnvNext == CnvConvert

-----------------------------------------------------------------------------
(* main: the signal channel and the goroutine that receives from it.  The  *)
(* channel has room for one signal; signal.Notify never blocks, a signal   *)
(* that finds the channel full is dropped.                                 *)

MaxSignals == 3

Signals == {"SIGINT", "SIGTERM", "SIGHUP"}

\* The process after main has started the goroutine.  debugFileSet: DEBUG is
\* on and DEBUG_FILE names a file that can be opened.
NewProc(debugFileSet) ==
    [running |-> TRUE, handler |-> "waiting", sigChan |-> <<>>,
     debugFileSet |-> debugFileSet, debugFile |-> debugFileSet,
     reloads |-> 0, sent |-> <<>>]

\* One run of the goroutine's body on the signal received.
HandleSignal(p, sig) ==
    IF sig = "SIGHUP"
    THEN [p EXCEPT !.sigChan = Tail(@), !.debugFile = p.debugFileSet,
                   !.reloads = @ + 1, !.handler = "returned"]
    ELSE [p EXCEPT !.sigChan = Tail(@), !.debugFile = FALSE,
                   !.running = FALSE, !.handler = "exited"]

SigOthers == UNCHANGED <<seqVars, aggVars, rdrVars, asmVars, chkVars, wsrVars, auth, hdl, reqs, cnv>>

\* A signal reaches the process.
SigNotify ==
    /\ proc.running
    /\ Len(proc.sent) < MaxSignals
    /\ \E sig \in Signals :
           proc' = [proc EXCEPT !.sent = Append(@, sig),
                                !.sigChan = IF Len(@) < 1 THEN Append(@, sig) ELSE @]
    /\ SigOthers

\* The goroutine receives from the channel.
SigHandle ==
    /\ proc.running
    /\ proc.handler = "waiting"
    /\ proc.sigChan # <<>>
    /\ proc' = HandleSignal(proc, Head(proc.sigChan))
    /\ SigOthers

SigNext ==
    \/ SigNotify
    \/ SigHandle

-----------------------------------------------------------------------------
(* The specifications, one per component.                                *)

InitSeq ==
    /\ streamState = NewSSEStreamState
    /\ frames = <<>>
    /\ seqCall = NewSeqCall
    /\ session = newToolCallsSession
    /\ aggCall = NewAggCall
    /\ absorbed = <<>>
    /\ parser = NewSSEStreamParser
    /\ source = NewSource(<<>>)
    /\ ctxDone = FALSE
    /\ rdrCall = NewRdrCall
    /\ events = <<>>
    /\ asm = NewAsm
    /\ upstream = <<>>
    /\ chk = NewChk
    /\ wsr = NewWsr(<<>>)
    /\ auth = NewAuth(Token1)
    /\ hdl = NewHdl
    /\ reqs = NewReqs
    /\ cnv = <<>>
    /\ proc = NewProc(FALSE)

SpecSeq == InitSeq /\ [][SeqNext]_vars

SpecAgg == InitSeq /\ [][AggNext]_vars

SpecRoute == InitSeq /\ [][RouteNext]_vars

SpecTeardown == InitSeq /\ [][TeardownNext]_vars

SpecAsm == InitSeq /\ [][AsmNext]_vars

InitReader ==
    /\ streamState = NewSSEStreamState
    /\ frames = <<>>
    /\ seqCall = NewSeqCall
    /\ session = newToolCallsSession
    /\ aggCall = NewAggCall
    /\ absorbed = <<>>
    /\ parser = NewSSEStreamParser
    /\ \E ps \in PayloadLists : source = NewSource(ps)
    /\ ctxDone = FALSE
    /\ rdrCall = NewRdrCall
    /\ events = <<>>
    /\ asm = NewAsm
    /\ upstream = <<>>
    /\ chk = NewChk
    /\ wsr = NewWsr(<<>>)
    /\ auth = NewAuth(Token1)
    /\ hdl = NewHdl
    /\ reqs = NewReqs
    /\ cnv = <<>>
    /\ proc = NewProc(FALSE)

SpecReader == InitReader /\ [][RdrNext]_vars

\* Streams in which lines without the "data: " marker (comments, keep-alives)
\* stand between the frames.
MaxLines == 2

\* ":k"
NoiseText == <<58, 107>>

Lines ==
    [noise : {TRUE}, text : {NoiseText}] \cup [noise : {FALSE}, text : {<<120>>, PayloadDone}]

LineBytes(l) == IF l.noise THEN l.text \o NL ELSE Frame(l.text)

LineLists == UNION {[1..n -> Lines] : n \in 0..MaxLines}

RECURSIVE FramedPayloads(_)
FramedPayloads(ls) ==
    IF ls = <<>> THEN <<>>
    ELSE (IF Head(ls).noise THEN <<>> ELSE <<Head(ls).text>>) \o FramedPayloads(Tail(ls))

NewNoisySource(ls) ==
    [bytes |-> Flatten([i \in 1..Len(ls) |-> LineBytes(ls[i])]),
     payloads |-> FramedPayloads(ls), read |-> 0, dataWithEOF |-> FALSE]

InitNoise ==
    /\ streamState = NewSSEStreamState
    /\ frames = <<>>
    /\ seqCall = NewSeqCall
    /\ session = newToolCallsSession
    /\ aggCall = NewAggCall
    /\ absorbed = <<>>
    /\ parser = NewSSEStreamParser
    /\ \E ls \in LineLists : source = NewNoisySource(ls)
    /\ ctxDone = FALSE
    /\ rdrCall = NewRdrCall
    /\ events = <<>>
    /\ asm = NewAsm
    /\ upstream = <<>>
    /\ chk = NewChk
    /\ wsr = NewWsr(<<>>)
    /\ auth = NewAuth(Token1)
    /\ hdl = NewHdl
    /\ reqs = NewReqs
    /\ cnv = <<>>
    /\ proc = NewProc(FALSE)

SpecNoise == InitNoise /\ [][RdrNext]_vars

\* Streams whose events end with one newline or with two.
Separators == {NL, NL \o NL}

SeparatedPayloads == {<<120>>, PayloadJSON, PayloadDone}

SeparatedStreams ==
    UNION {{[bytes |-> Flatten([i \in 1..n |-> DataMarker \o ps[i] \o seps[i]]),
             payloads |-> ps, read |-> 0, dataWithEOF |-> FALSE] :
                ps \in [1..n -> SeparatedPayloads], seps \in [1..n -> Separators]} :
           n \in 0..MaxEvents}

InitSeparated ==
    /\ streamState = NewSSEStreamState
    /\ frames = <<>>
    /\ seqCall = NewSeqCall
    /\ session = newToolCallsSession
    /\ aggCall = NewAggCall
    /\ absorbed = <<>>
    /\ parser = NewSSEStreamParser
    /\ source \in SeparatedStreams
    /\ ctxDone = FALSE
    /\ rdrCall = NewRdrCall
    /\ events = <<>>
    /\ asm = NewAsm
    /\ upstream = <<>>
    /\ chk = NewChk
    /\ wsr = NewWsr(<<>>)
    /\ auth = NewAuth(Token1)
    /\ hdl = NewHdl
    /\ reqs = NewReqs
    /\ cnv = <<>>
    /\ proc = NewProc(FALSE)

SpecSeparated == InitSeparated /\ [][RdrNext]_vars

\* The loop of processUnifiedResponse on a stream that ends with io.EOF:
\* NextEvent is called again as long as it returned an event.
RdrLoopCall ==
    /\ rdrCall.ret \in {"none", "event"}
    /\ RdrNextEvent

RdrLoopNext ==
    \/ RdrLoopCall
    \/ RdrParse
    \/ RdrSelect
    \/ RdrReadData
    \/ RdrReadEOF

\* The streams the loop is followed on: lines "data: x" and "data: {" ending
\* with one newline or with two, MaxStreamLen bytes at most.
MaxStreamLen == 17

LoopPayloads == {<<120>>, <<123>>}

LoopStreams ==
    {src \in UNION {{[bytes |-> Flatten([i \in 1..n |-> DataMarker \o ps[i] \o seps[i]]),
                      payloads |-> ps, read |-> 0, dataWithEOF |-> FALSE] :
                         ps \in [1..n -> LoopPayloads], seps \in [1..n -> Separators]} :
                    n \in 0..(MaxStreamLen \div (Len(DataMarker) + 2))} :
        Len(src.bytes) <= MaxStreamLen}

InitReadLoop ==
    /\ streamState = NewSSEStreamState
    /\ frames = <<>>
    /\ seqCall = NewSeqCall
    /\ session = newToolCallsSession
    /\ aggCall = NewAggCall
    /\ absorbed = <<>>
    /\ parser = NewSSEStreamParser
    /\ source \in LoopStreams
    /\ ctxDone = FALSE
    /\ rdrCall = NewRdrCall
    /\ events = <<>>
    /\ asm = NewAsm
    /\ upstream = <<>>
    /\ chk = NewChk
    /\ wsr = NewWsr(<<>>)
    /\ auth = NewAuth(Token1)
    /\ hdl = NewHdl
    /\ reqs = NewReqs
    /\ cnv = <<>>
    /\ proc = NewProc(FALSE)

SpecReadLoop == InitReadLoop /\ [][RdrLoopNext]_vars /\ WF_vars(RdrLoopNext)

InitChunk ==
    /\ streamState = NewSSEStreamState
    /\ frames = <<>>
    /\ seqCall = NewSeqCall
    /\ session = newToolCallsSession
    /\ aggCall = NewAggCall
    /\ absorbed = <<>>
    /\ parser = NewSSEStreamParser
    /\ source = NewSource(<<>>)
    /\ ctxDone = FALSE
    /\ rdrCall = NewRdrCall
    /\ events = <<>>
    /\ asm = NewAsm
    /\ upstream = <<>>
    /\ \E input \in ChunkInputs, maxChunkSize \in ChunkBudgets :
           chk = [NewChk EXCEPT !.input = input, !.maxChunkSize = maxChunkSize]
    /\ wsr = NewWsr(<<>>)
    /\ auth = NewAuth(Token1)
    /\ hdl = NewHdl
    /\ reqs = NewReqs
    /\ cnv = <<>>
    /\ proc = NewProc(FALSE)

SpecChunk == InitChunk /\ [][ChkNext]_vars

InitChunkLoop ==
    /\ streamState = NewSSEStreamState
    /\ frames = <<>>
    /\ seqCall = NewSeqCall
    /\ session = newToolCallsSession
    /\ aggCall = NewAggCall
    /\ absorbed = <<>>
    /\ parser = NewSSEStreamParser
    /\ source = NewSource(<<>>)
    /\ ctxDone = FALSE
    /\ rdrCall = NewRdrCall
    /\ events = <<>>
    /\ asm = NewAsm
    /\ upstream = <<>>
    /\ \E input \in LoopInputs, maxChunkSize \in ChunkBudgets :
           chk = [NewChk EXCEPT !.input = input, !.maxChunkSize = maxChunkSize]
    /\ wsr = NewWsr(<<>>)
    /\ auth = NewAuth(Token1)
    /\ hdl = NewHdl
    /\ reqs = NewReqs
    /\ cnv = <<>>
    /\ proc = NewProc(FALSE)

\* The loop runs to its end once entered: nothing else runs in the call.
SpecChunkLoop == InitChunkLoop /\ [][ChkLoopNext]_vars /\ WF_vars(ChkLoopNext)

InitStream ==
    /\ streamState = NewSSEStreamState
    /\ frames = <<>>
    /\ seqCall = NewSeqCall
    /\ session = newToolCallsSession
    /\ aggCall = NewAggCall
    /\ absorbed = <<>>
    /\ parser = NewSSEStreamParser
    /\ source = NewSource(<<>>)
    /\ ctxDone = FALSE
    /\ rdrCall = NewRdrCall
    /\ events = <<>>
    /\ asm = NewAsm
    /\ upstream = <<>>
    /\ chk = NewChk
    /\ \E data \in StreamDatas : wsr = NewWsr(data)
    /\ auth = NewAuth(Token1)
    /\ hdl = NewHdl
    /\ reqs = NewReqs
    /\ cnv = <<>>
    /\ proc = NewProc(FALSE)

SpecStream == InitStream /\ [][WsrNext]_vars

InitAuth ==
    /\ streamState = NewSSEStreamState
    /\ frames = <<>>
    /\ seqCall = NewSeqCall
    /\ session = newToolCallsSession
    /\ aggCall = NewAggCall
    /\ absorbed = <<>>
    /\ parser = NewSSEStreamParser
    /\ source = NewSource(<<>>)
    /\ ctxDone = FALSE
    /\ rdrCall = NewRdrCall
    /\ events = <<>>
    /\ asm = NewAsm
    /\ upstream = <<>>
    /\ chk = NewChk
    /\ wsr = NewWsr(<<>>)
    /\ \E token \in Tokens : auth = NewAuth(token)
    /\ hdl = NewHdl
    /\ reqs = NewReqs
    /\ cnv = <<>>
    /\ proc = NewProc(FALSE)

SpecAuth == InitAuth /\ [][AuthNext]_vars

InitHandler ==
    /\ streamState = NewSSEStreamState
    /\ frames = <<>>
    /\ seqCall = NewSeqCall
    /\ session = newToolCallsSession
    /\ aggCall = NewAggCall
    /\ absorbed = <<>>
    /\ parser = NewSSEStreamParser
    /\ source = NewSource(<<>>)
    /\ ctxDone = FALSE
    /\ rdrCall = NewRdrCall
    /\ events = <<>>
    /\ asm = NewAsm
    /\ upstream = <<>>
    /\ chk = NewChk
    /\ wsr = NewWsr(<<>>)
    /\ auth = NewAuth(Token1)
    /\ hdl = NewHdl
    /\ reqs = NewReqs
    /\ cnv = <<>>
    /\ proc = NewProc(FALSE)

SpecHandler == InitHandler /\ [][HdlNext]_vars

SpecRequests == InitHandler /\ [][ReqNext]_vars

SpecConvert == InitSeq /\ [][CnvNext]_vars

InitSignal ==
    /\ streamState = NewSSEStreamState
    /\ frames = <<>>
    /\ seqCall = NewSeqCall
    /\ session = newToolCallsSession
    /\ aggCall = NewAggCall
    /\ absorbed = <<>>
    /\ parser = NewSSEStreamParser
    /\ source = NewSource(<<>>)
    /\ ctxDone = FALSE
    /\ rdrCall = NewRdrCall
    /\ events = <<>>
    /\ asm = NewAsm
    /\ upstream = <<>>
    /\ chk = NewChk
    /\ wsr = NewWsr(<<>>)
    /\ auth = NewAuth(Token1)
    /\ hdl = NewHdl
    /\ reqs = NewReqs
    /\ cnv = <<>>
    /\ \E debugFileSet \in BOOLEAN : proc = NewProc(debugFileSet)

\* The goroutine is scheduled: a signal in the channel is received while the
\* goroutine waits.
SpecSignal == InitSignal /\ [][SigNext]_vars /\ WF_vars(SigHandle)

-----------------------------------------------------------------------------
(* Properties of the aggregator (SpecAgg).                                 *)

\* The fragments delivered so far, each with the number of its chunk.
RECURSIVE FlatFrom(_, _)
FlatFrom(log, c) ==
    IF c > Len(log) THEN <<>>
    ELSE [i \in 1..Len(log[c]) |-> [c |-> c, f |-> log[c][i]]] \o FlatFrom(log, c + 1)

Delivered == FlatFrom(absorbed, 1)

Positions(D) == [k \in 1..Len(D) |-> k]

\* What the delivered fragments D amount to, read off D alone:
\*   opened   the positions of the fragments that open an invocation: the first
\*            to bear an identifier, while fewer than MaxToolCalls are open;
\*   routed   for each position the identifier of the invocation the fragment
\*            is routed to: its own, or without one the most recently opened;
\*            NoID when it is routed to none (its chunk was given up at or
\*            before it for the bound, or nothing is open).
Routing(D) ==
    LET n == Len(D)
        idsUpTo(k) == {D[j].f.ID : j \in 1..k} \ {NoID}
        firstSeen == {k \in 1..n : D[k].f.ID # NoID /\ D[k].f.ID \notin idsUpTo(k - 1)}
        openedSet == {k \in firstSeen : Cardinality(idsUpTo(k)) <= MaxToolCalls}
        refusedIDs == {D[k].f.ID : k \in firstSeen \ openedSet}
        givenUp == {k \in 1..n : \E j \in 1..k : D[j].c = D[k].c /\ D[j].f.ID \in refusedIDs}
        lastOpened(k) ==
            LET before == {j \in openedSet : j < k}
            IN IF before = {} THEN NoID
               ELSE D[CHOOSE j \in before : \A i \in before : i <= j].f.ID
    IN [opened |-> SelectSeq(Positions(D), LAMBDA k : k \in openedSet),
        routed |-> [k \in 1..n |->
                      IF k \in givenUp THEN NoID
                      ELSE IF D[k].f.ID # NoID THEN D[k].f.ID
                      ELSE lastOpened(k)]]

\* The argument text of the fragments routed to id, concatenated in arrival order.
RoutedArguments(D, routed, id) ==
    LET ks == SelectSeq(Positions(D), LAMBDA k : routed[k] = id)
    IN Flatten([i \in 1..Len(ks) |-> D[ks[i]].f.Arguments])

\* C1: the aggregator holds one invocation per identifier opened, in first-seen
\* order, and the accumulated argument text of each is the concatenation, in
\* arrival order, of the argument text of every fragment routed to it.
C1_ArgumentsAreConcatenation ==
    LET D == Delivered
        r == Routing(D)
        routed == r.routed
    IN /\ Len(session.toolCallsOrder) = Len(r.opened)
       /\ \A i \in 1..Len(r.opened) :
              /\ session.toolCallsOrder[i].ID = D[r.opened[i]].f.ID
              /\ session.toolCallsOrder[i].Arguments
                     = RoutedArguments(D, routed, D[r.opened[i]].f.ID)

\* {id:x, name:f, args:'{"a":'} then {id:x, args:'1}'} gave one invocation f
\* with arguments {"a":1}.
C1_Witness ==
    /\ absorbed = << <<[ID |-> 1, Name |-> "f", Arguments |-> ArgsOpen]>>,
                     <<[ID |-> 1, Name |-> "", Arguments |-> ArgsClose]>> >>
    /\ session.toolCallsOrder =
           <<[ID |-> 1, Name |-> "f", Arguments |-> <<123, 34, 97, 34, 58, 49, 125>>]>>

\* C3: the aggregator never holds more than MaxToolCalls invocations.
C3_AtMostMaxToolCalls == Len(session.toolCallsOrder) <= MaxToolCalls

\* The aggregator is full and has refused a further identifier.
C3_Witness ==
    /\ Len(session.toolCallsOrder) = MaxToolCalls
    /\ aggCall.ret = ToolProcessError

-----------------------------------------------------------------------------
(* Properties of the sequencer (SpecSeq).                                  *)

Starts(w, n) == Cardinality({i \in 1..n : w[i].type = SSEEventContentBlockStart})
Stops(w, n) == Cardinality({i \in 1..n : w[i].type = SSEEventContentBlockStop})

\* C4: every content_block_stop written, the one Finish writes by itself
\* included, comes after a content_block_start that no earlier
\* content_block_stop has closed.
C4_StopClosesOpenBlock ==
    \A i \in 1..Len(frames) :
        frames[i].type = SSEEventContentBlockStop
            => Starts(frames, i - 1) > Stops(frames, i - 1)

\* Finish closed the block that was open: stop, message_delta, message_stop.
C4_Witness ==
    /\ seqCall = [op |-> "FinishStream", ret |-> TRUE]
    /\ Len(frames) >= 3
    /\ frames[Len(frames) - 2].type = SSEEventContentBlockStop

\* C5: Finish is idempotent: one message_delta and one message_stop are written
\* by the first Finish, none before it, and a Finish on a finished sequencer
\* returns false and changes neither the sequencer nor what was written.
C5_FinishIsIdempotent ==
    /\ [](LET n == IF streamState.streamFinished THEN 1 ELSE 0
          IN /\ Count(FrameTypes(frames), SSEEventMessageDelta) = n
             /\ Count(FrameTypes(frames), SSEEventMessageStop) = n)
    /\ [][(streamState.streamFinished /\ seqCall'.op = "FinishStream")
              => (~seqCall'.ret /\ streamState' = streamState /\ frames' = frames)]_vars

\* Finish was called on a finished sequencer.
C5_Witness ==
    /\ streamState.streamFinished
    /\ seqCall = [op |-> "FinishStream", ret |-> FALSE]

-----------------------------------------------------------------------------
(* Properties of the reader (SpecReader).                                  *)

ExpectedEvents(payloads) == [i \in 1..Len(payloads) |-> TrimSpace(DataMarker \o payloads[i])]

\* C6: when NextEvent reports end-of-stream, the events returned were exactly
\* the frames of the stream, one event "data: <payload>" (trimmed) per frame,
\* in stream order.
C6_FramedEventsInOrder ==
    (parser.pc = "idle" /\ rdrCall.ret = "EOF") => events = ExpectedEvents(source.payloads)

\* The same when no Read returned bytes together with io.EOF.
FramedEventsInOrderWhenEOFAlone ==
    (parser.pc = "idle" /\ rdrCall.ret = "EOF" /\ ~source.dataWithEOF)
        => events = ExpectedEvents(source.payloads)

\* C7: a NextEvent call entered with the cancellation signal set and no
\* complete event in the buffer performs no Read and returns ctx.Err().
C7_CancelledBeforeRead ==
    (rdrCall.ctxAtEntry /\ ~rdrCall.eventAtEntry)
        => /\ ~rdrCall.readInCall
           /\ parser.pc # "read"
           /\ (parser.pc = "idle" => rdrCall.ret = "ctx.Err")

\* Such a call returned, with bytes of an incomplete event in the buffer.
C7_Witness ==
    /\ rdrCall.ctxAtEntry /\ ~rdrCall.eventAtEntry
    /\ parser.pc = "idle" /\ rdrCall.ret = "ctx.Err"
    /\ Len(parser.buffer) > 0
    /\ Remaining > 0

-----------------------------------------------------------------------------
(* Properties of the assembler (SpecAsm).                                  *)

\* The aggregator returned ToolProcessError for a fragment of this response.
HardFailure == \E i \in 1..Len(upstream) : upstream[i].tool = ToolProcessError

\* C2: once the aggregator has returned the hard failure for a fragment, the
\* assembler takes no further event of the response, and its processing ends
\* with a processing error and no result.
C2_OverflowEndsWithProcessingError ==
    \A i \in 1..Len(upstream) :
        upstream[i].tool = ToolProcessError
            => /\ i = Len(upstream)
               /\ asm.pc = "returned" => (asm.err # "nil" /\ asm.result = <<>>)

\* What is true instead: the hard failure is returned to the assembler with the
\* aggregator full, and the assembler goes on as after any other chunk.
HardFailureLeavesAssemblerRunning ==
    \A i \in 1..Len(upstream) :
        upstream[i].tool = ToolProcessError
            => /\ Len(session.toolCallsOrder) = MaxToolCalls
               /\ (i = Len(upstream) => asm.pc = "loop" /\ asm.err = "nil")

\* The blocks of b that the filter keeps, told from b alone.
Surviving(b) ==
    SelectSeq(b, LAMBDA x : ~(x.Type = "text" /\ TrimSpace(x.Text) = <<>>))

\* The blocks the assembler holds before the filter when it returns.
Unfiltered ==
    IF asm.isToolCall /\ session.toolCallsOrder # <<>>
    THEN buildToolCallBlocks(session.toolCallsOrder)
    ELSE asm.contentBlocks

\* C8: the content blocks of every ResponseData returned are not empty: they
\* are the blocks that survive the filter or, when none does, exactly the one
\* default text block.
C8_ContentBlocksNeverEmpty ==
    asm.result # <<>>
        => /\ Len(asm.result[1].ContentBlocks) >= 1
           /\ Surviving(Unfiltered) # <<>>
                  => asm.result[1].ContentBlocks = Surviving(Unfiltered)
           /\ Surviving(Unfiltered) = <<>>
                  => asm.result[1].ContentBlocks = <<TextBlock(PlaceholderText)>>

\* A response whose only text block is blank got the default block.
C8_Witness ==
    /\ asm.result # <<>>
    /\ asm.contentBlocks = <<TextBlock(<<32>>)>>
    /\ asm.result[1].ContentBlocks = <<TextBlock(PlaceholderText)>>

-----------------------------------------------------------------------------
(* Properties of the chunker (SpecChunk).                                  *)

\* C9 as stated: for every input and budget the chunks, joined in order, are
\* the input.
C9_RejoinIsInput ==
    chk.pc = "done" => Flatten(chk.chunks) = chk.input

\* C9: for every well-formed UTF-8 input and every budget the chunks, joined
\* in order, are the input byte for byte.
C9_RejoinIsInputWhenValidUTF8 ==
    (chk.pc = "done" /\ ValidString(chk.input)) => Flatten(chk.chunks) = chk.input

\* "a" and a three-byte rune under a budget of two bytes: the cut backed off
\* to the start of the rune and then moved over the whole of it.
C9_Witness ==
    /\ chk.pc = "done"
    /\ chk.input = <<97, 226, 130, 130>>
    /\ chk.maxChunkSize = 2
    /\ chk.chunks = << <<97>>, <<226, 130, 130>> >>

-----------------------------------------------------------------------------
(* Properties of the streaming adapter (SpecStream).                       *)

\* C10: a streamed response has the message_delta, message_stop pair exactly
\* once: never twice, and once the adapter is done, also after a panic in its
\* body, the pair is there and ends the frames.
C10_TerminalPairExactlyOnce ==
    LET types == FrameTypes(frames)
        n == Len(types)
    IN /\ Count(types, SSEEventMessageDelta) <= 1
       /\ Count(types, SSEEventMessageStop) <= 1
       /\ (wsr.pc = "done" /\ wsr.created)
              => /\ Count(types, SSEEventMessageDelta) = 1
                 /\ Count(types, SSEEventMessageStop) = 1
                 /\ n >= 2
                 /\ types[n - 1] = SSEEventMessageDelta
                 /\ types[n] = SSEEventMessageStop

\* The body ended in a panic with a text block open: the deferred function
\* closed the block and wrote the pair.
C10_Witness ==
    /\ wsr.pc = "done"
    /\ wsr.panicked
    /\ Len(frames) >= 3
    /\ FrameTypes(frames)[Len(frames) - 2] = SSEEventContentBlockStop
    /\ FrameTypes(frames)[Len(frames)] = SSEEventMessageStop

-----------------------------------------------------------------------------
(* Further properties of the sequencer (SpecSeq).                          *)

\* A frame other than message_start was written with no message_start before it.
FrameBeforeMessageStart ==
    \E i \in 1..Len(frames) :
        /\ frames[i].type # SSEEventMessageStart
        /\ \A j \in 1..(i - 1) : frames[j].type # SSEEventMessageStart

C17_IndexCountsBlockCloses ==
    streamState.currentBlockIndex = Count(FrameTypes(frames), SSEEventContentBlockStop)

\* C18: EnsureContentBlockStart is refused, writing nothing and changing
\* nothing, when tool-call mode is active or a block is open; tool-call mode
\* once active stays active and no content_block_start is written after it;
\* at most one block is open at any time.
C18_BlockOpenRefused ==
    /\ [](LET open == Count(FrameTypes(frames), SSEEventContentBlockStart)
                          - Count(FrameTypes(frames), SSEEventContentBlockStop)
          IN /\ open \in {0, 1}
             /\ streamState.contentBlockStarted <=> open = 1)
    /\ [][/\ (seqCall'.op = "EnsureContentBlockStart"
                 /\ (streamState.toolCallsActive \/ streamState.contentBlockStarted))
              => (~seqCall'.ret /\ frames' = frames /\ streamState' = streamState)
          /\ streamState.toolCallsActive
              => /\ streamState'.toolCallsActive
                 /\ Count(FrameTypes(frames'), SSEEventContentBlockStart)
                        = Count(FrameTypes(frames), SSEEventContentBlockStart)]_vars

\* A block-open was refused in tool-call mode with no block open.
C18_Witness ==
    /\ streamState.toolCallsActive
    /\ ~streamState.contentBlockStarted
    /\ seqCall = [op |-> "EnsureContentBlockStart", ret |-> FALSE]

\* C19: Finish on an unfinished sequencer with a block open writes the
\* content_block_stop of that block, then message_delta, then message_stop,
\* and leaves no block open.
C19_FinishClosesOpenBlockFirst ==
    [][(seqCall'.op = "FinishStream" /\ streamState.contentBlockStarted
            /\ ~streamState.streamFinished)
          => /\ Len(frames') = Len(frames) + 3
             /\ SubSeq(frames', 1, Len(frames)) = frames
             /\ frames'[Len(frames) + 1]
                    = FormatContentBlockStop(streamState.currentBlockIndex)
             /\ frames'[Len(frames) + 2].type = SSEEventMessageDelta
             /\ frames'[Len(frames) + 3].type = SSEEventMessageStop
             /\ ~streamState'.contentBlockStarted
             /\ streamState'.streamFinished]_vars

\* Finish was called right after a block was opened.
C19_Witness ==
    /\ seqCall = [op |-> "FinishStream", ret |-> TRUE]
    /\ Len(frames) >= 4
    /\ frames[Len(frames) - 3].type = SSEEventContentBlockStart
    /\ frames[Len(frames) - 2].type = SSEEventContentBlockStop
    /\ ~streamState.contentBlockStarted

\* C20: message_start is written at most once: the first EnsureMessageStart
\* writes it and returns true, a later one writes nothing, returns false and
\* leaves the sequencer (id, model, history) as it was.
C20_MessageStartAtMostOnce ==
    /\ [](/\ Count(FrameTypes(frames), SSEEventMessageStart) <= 1
          /\ streamState.messageStartSent
                 <=> Count(FrameTypes(frames), SSEEventMessageStart) = 1)
    /\ [][seqCall'.op = "EnsureMessageStart"
            => IF streamState.messageStartSent
               THEN ~seqCall'.ret /\ frames' = frames /\ streamState' = streamState
               ELSE /\ seqCall'.ret
                    /\ Len(frames') = Len(frames) + 1
                    /\ frames'[Len(frames')].type = SSEEventMessageStart]_vars

\* EnsureMessageStart was called on a sequencer that had sent message_start.
C20_Witness ==
    /\ streamState.messageStartSent
    /\ seqCall = [op |-> "EnsureMessageStart", ret |-> FALSE]

-----------------------------------------------------------------------------
(* Marker-less lines in the reader's stream (SpecNoise).                   *)

\* C16: once the reader has looked at a buffer that holds no "data: " marker
\* but a newline, the bytes through that newline are gone from the buffer; and
\* no marker-less line is ever returned as an event.
C16_NoiseDiscarded ==
    /\ (parser.pc \in {"select", "read"} /\ IndexOf(parser.buffer, DataMarker) = -1)
           => IndexOf(parser.buffer, NL) = -1
    /\ \A i \in 1..Len(events) : IndexOf(events[i], DataMarker) = 0

\* What holds instead: a marker-less line is dropped only together with the
\* frame that follows it in the buffer; the events that start with the marker
\* are the frames of the stream, in order, when every byte came without io.EOF.
NoiseDroppedWithNextFrame ==
    (parser.pc = "idle" /\ rdrCall.ret = "EOF" /\ ~source.dataWithEOF)
        => SelectSeq(events, LAMBDA e : IndexOf(e, DataMarker) = 0)
               = ExpectedEvents(source.payloads)

-----------------------------------------------------------------------------
(* The order of the frames of the streaming adapter (SpecStream).          *)

\* The number of content_block_start frames among the first n frames of w.
BlocksOpenedBefore(w, n) ==
    Count(FrameTypes(SubSeq(w, 1, n)), SSEEventContentBlockStart)

\* C15: when the adapter has run to its end, the frames are: one
\* message_start first; then block after block, each one content_block_start,
\* any number of content_block_delta and one content_block_stop, all with the
\* index of the block, the blocks not nested and numbered 0, 1, 2, ...; then
\* one message_delta with the result's stop reason; then one message_stop.
C15_FramesInProtocolOrder ==
    (wsr.pc = "done" /\ wsr.created /\ ~wsr.panicked)
        => LET n == Len(frames)
               types == FrameTypes(frames)
           IN /\ n >= 3
              /\ types[1] = SSEEventMessageStart
              /\ Count(types, SSEEventMessageStart) = 1
              /\ types[n - 1] = SSEEventMessageDelta
              /\ Count(types, SSEEventMessageDelta) = 1
              /\ frames[n - 1].payload[1] = wsr.data.StopReason
              /\ types[n] = SSEEventMessageStop
              /\ Count(types, SSEEventMessageStop) = 1
              /\ types[n - 2] \in {SSEEventMessageStart, SSEEventContentBlockStop}
              /\ \A i \in 2..(n - 2) :
                     \/ /\ types[i] = SSEEventContentBlockStart
                        /\ types[i - 1] \in {SSEEventMessageStart, SSEEventContentBlockStop}
                        /\ frames[i].index = BlocksOpenedBefore(frames, i - 1)
                     \/ /\ types[i] \in {SSEEventContentBlockDelta, SSEEventContentBlockStop}
                        /\ types[i - 1] \in {SSEEventContentBlockStart,
                                             SSEEventContentBlockDelta}
                        /\ frames[i].index = frames[i - 1].index

\* The results the adapter is given (SpecAsm): the blocks of a returned result
\* are one text block that is not blank, or tool_use blocks only, in
\* tool-call mode.
ResultIsOneTextOrToolUses ==
    asm.result # <<>>
        => LET blocks == asm.result[1].ContentBlocks
           IN \/ /\ Len(blocks) = 1
                 /\ blocks[1].Type = "text"
                 /\ TrimSpace(blocks[1].Text) # <<>>
              \/ /\ asm.result[1].IsToolCall
                 /\ asm.result[1].StopReason = "tool_use"
                 /\ \A i \in 1..Len(blocks) : blocks[i].Type = "tool_use"

\* The adapter wrote two blocks, each with a delta.
C15_Witness ==
    /\ wsr.pc = "done" /\ wsr.created /\ ~wsr.panicked
    /\ Count(FrameTypes(frames), SSEEventContentBlockStart) = 2
    /\ Count(FrameTypes(frames), SSEEventContentBlockDelta) >= 2

\* The adapter wrote a block of more than one delta.
SeveralDeltasInOneBlock ==
    /\ wsr.pc = "done" /\ wsr.created /\ ~wsr.panicked
    /\ Count(FrameTypes(frames), SSEEventContentBlockStart) = 1
    /\ Count(FrameTypes(frames), SSEEventContentBlockDelta) = 2

-----------------------------------------------------------------------------
(* Authentication of the routes under /v1 (SpecAuth).                      *)

\* The request at hand carries "Authorization: Bearer <CODEBUDDY2CC_AUTH>".
HasBearerToken == auth.request.authorization = BearerPrefix \o auth.expectedToken

\* The request at hand carries "X-API-Key: <CODEBUDDY2CC_AUTH>".
HasAPIKey == auth.request.apiKey = auth.expectedToken

WrongTokenRejected ==
    /\ auth.request.route \in V1Routes
    /\ auth.pc = "answered"
    /\ auth.status = StatusUnauthorized
    /\ auth.error = "Invalid token"
    /\ auth.handler = "none"

-----------------------------------------------------------------------------
(* The upstream's status in MessagesHandler (SpecHandler).                 *)

\* The upstream answered the request at hand with a status other than 200.
UpstreamNot200 == hdl.resp # NoResponse /\ hdl.resp.status # StatusOK

\* C12 as stated: when the upstream's status is not 200, the handler answers
\* with the upstream's body and status unchanged and the pipeline is not
\* entered.
C12_Non200HandedThroughUnchanged ==
    (UpstreamNot200 /\ hdl.pc \in {"returned", "idle"})
        => /\ hdl.answer.status = hdl.resp.status
           /\ hdl.answer.body = hdl.resp.body
           /\ ~hdl.pipeline

\* C12: when the upstream's status is not 200 the pipeline is never entered
\* and no adapter writes; the handler answers with the upstream's body and
\* status unchanged when the body was read to its end, and with a 500 of its
\* own when reading the body failed.
C12_Non200NeverEntersPipeline ==
    UpstreamNot200
        => /\ ~hdl.pipeline
           /\ hdl.adapter = "none"
           /\ hdl.pc \in {"status", "returned", "idle"}
           /\ hdl.pc \in {"returned", "idle"}
                  => IF hdl.resp.readFails
                     THEN hdl.answer = JSONError(StatusInternalServerError,
                                                 "Failed to read error response")
                     ELSE /\ hdl.answer.status = hdl.resp.status
                          /\ hdl.answer.body = hdl.resp.body

\* The upstream's 429 was handed to the client.
C12_Witness ==
    /\ hdl.pc = "returned"
    /\ hdl.resp.status = 429
    /\ ~hdl.resp.readFails
    /\ hdl.answer.status = 429
    /\ hdl.answer.body = hdl.resp.body
    /\ ~hdl.pipeline

\* A status of 200 is the only one with which the pipeline runs.
PipelineOnlyAfter200 == hdl.pipeline => hdl.resp.status = StatusOK

-----------------------------------------------------------------------------
(* Two requests at once (SpecRequests).                                    *)

\* The result of a request that is alone in the process, on the events evs.
RECURSIVE RunAlone(_, _, _)
RunAlone(a, sess, evs) ==
    IF evs = <<>> THEN AsmReturn(a, sess).result
    ELSE LET st == ReqRound(a, sess, Head(evs))
         IN RunAlone(st.asm, st.sess, Tail(evs))

\* C11: whatever the interleaving of the steps of two requests, the result
\* each request returns is the result it returns on the same events when it
\* runs alone.
C11_ResultAsWhenAlone ==
    \A r \in RequestIDs :
        reqs[r].asm.pc = "returned"
            => reqs[r].asm.result = RunAlone(NewAsm, newToolCallsSession, reqs[r].events)

\* Both requests returned, each having taken steps while the other was in
\* the middle of its loop, one with a tool call and one with text.
C11_Witness ==
    /\ \A r \in RequestIDs : reqs[r].asm.pc = "returned" /\ reqs[r].overlap
    /\ reqs[1].asm.result[1].IsToolCall
    /\ reqs[1].asm.result[1].ContentBlocks[1].Type = "tool_use"
    /\ ~reqs[2].asm.result[1].IsToolCall
    /\ Len(reqs[2].events) = MaxRounds

-----------------------------------------------------------------------------
(* Validation and emission in the sequencer (SpecSeq).                     *)

\* The sequencer as it is when validation is off from the start: nothing
\* reaches the validator and nothing is counted.
Blind(s) ==
    [s EXCEPT !.validationEnabled = FALSE,
              !.sequenceValidator = NewSSEEventValidator,
              !.errorCount = 0]

\* An operation does the same on the sequencer and on the blind one: the same
\* frames, the same return value, the same state but for the validation.
SameWhenBlind(on, off) ==
    /\ on.w = off.w
    /\ on.ret = off.ret
    /\ Blind(on.s) = off.s

\* An operation that records one event of kind eventType and was not refused
\* wrote one frame of that kind, and counted one error exactly when
\* validation is on and the validator objects to the event.
CountedAndWritten(r, eventType) ==
    r.ret => /\ Len(r.w) = Len(frames) + 1
             /\ r.w[Len(r.w)].type = eventType
             /\ r.s.errorCount = streamState.errorCount +
                    (IF streamState.validationEnabled
                        /\ ValidateEvent(streamState.sequenceValidator, eventType).err
                     THEN 1 ELSE 0)

\* C21: in every state the sequencer reaches, each operation writes its frame
\* even when the validator objects to the event, counting the objection; and
\* each operation writes the same frames and returns the same as on the
\* sequencer with validation off, so the frames of any sequence of operations
\* are the same with validation on as with validation off.
C21_ValidationNeverGatesEmission ==
    /\ \A id \in MessageIDs, m \in Models :
           /\ SameWhenBlind(EnsureMessageStart(streamState, frames, id, m),
                            EnsureMessageStart(Blind(streamState), frames, id, m))
           /\ CountedAndWritten(EnsureMessageStart(streamState, frames, id, m),
                                SSEEventMessageStart)
    /\ SameWhenBlind(EnsureContentBlockStart(streamState, frames, "text"),
                     EnsureContentBlockStart(Blind(streamState), frames, "text"))
    /\ CountedAndWritten(EnsureContentBlockStart(streamState, frames, "text"),
                         SSEEventContentBlockStart)
    /\ SameWhenBlind(FinishContentBlock(streamState, frames),
                     FinishContentBlock(Blind(streamState), frames))
    /\ CountedAndWritten(FinishContentBlock(streamState, frames),
                         SSEEventContentBlockStop)
    /\ \A r \in StopReasons :
           SameWhenBlind(FinishStream(streamState, frames, r),
                         FinishStream(Blind(streamState), frames, r))
    /\ Blind(ActivateToolCalls(streamState)) = ActivateToolCalls(Blind(streamState))

\* Finish was the first call on a sequencer with validation on: message_delta
\* and message_stop were written, and the objections counted.
C21_Witness ==
    /\ streamState.validationEnabled
    /\ seqCall = [op |-> "FinishStream", ret |-> TRUE]
    /\ FrameTypes(frames) = <<SSEEventMessageDelta, SSEEventMessageStop>>
    /\ streamState.errorCount = 2

-----------------------------------------------------------------------------
(* Names and routing in the aggregator (SpecRoute).                        *)

\* The names, in arrival order, that the fragments routed to id carry.
RoutedNames(D, routed, id) ==
    LET ks == SelectSeq(Positions(D), LAMBDA k : routed[k] = id /\ D[k].f.Name # "")
    IN [i \in 1..Len(ks) |-> D[ks[i]].f.Name]

\* C22: the name of an invocation is the first non-empty name a fragment
\* routed to it carried, and once set no step changes it.
C22_NameSetAtMostOnce ==
    /\ [](LET D == Delivered
              routed == Routing(D).routed
          IN \A i \in 1..Len(session.toolCallsOrder) :
                 LET names == RoutedNames(D, routed, session.toolCallsOrder[i].ID)
                 IN session.toolCallsOrder[i].Name
                        = IF names = <<>> THEN "" ELSE names[1])
    /\ [][\A i \in 1..Len(session.toolCallsOrder) :
              session.toolCallsOrder[i].Name # ""
                  => /\ Len(session'.toolCallsOrder) >= i
                     /\ session'.toolCallsOrder[i].Name = session.toolCallsOrder[i].Name]_vars

\* An invocation named f was sent a fragment that names it g, and is named f.
C22_Witness ==
    /\ Len(absorbed) = 2
    /\ absorbed[1][1].ID = 1 /\ absorbed[1][1].Name = "f"
    /\ absorbed[2][1].ID = 1 /\ absorbed[2][1].Name = "g"
    /\ session.toolCallsOrder[1].Name = "f"

\* An invocation first sent fragments without a name took the first name sent.
NamedByLaterFragment ==
    /\ Len(absorbed) = 2
    /\ absorbed[1][1].ID = 1 /\ absorbed[1][1].Name = ""
    /\ absorbed[2][1].ID = NoID /\ absorbed[2][1].Name = "g"
    /\ session.toolCallsOrder[1].Name = "g"

\* The fragment the step at hand delivered.
DeliveredNow == absorbed'[Len(absorbed')][1]

\* C23: a fragment without an identifier is applied to the last invocation of
\* the order, the one created most recently, and to no other; with no
\* invocation yet it leaves the aggregator as it was.
C23_NoIDGoesToLastCreated ==
    [][(Len(absorbed') = Len(absorbed) + 1 /\ DeliveredNow.ID = NoID)
          => IF session.toolCallsOrder = <<>>
             THEN session' = session
             ELSE LET n == Len(session.toolCallsOrder)
                      last == session.toolCallsOrder[n]
                  IN /\ session'.toolCallsMap = session.toolCallsMap
                     /\ Len(session'.toolCallsOrder) = n
                     /\ \A i \in 1..(n - 1) :
                            session'.toolCallsOrder[i] = session.toolCallsOrder[i]
                     /\ session'.toolCallsOrder[n] =
                            [ID |-> last.ID,
                             Name |-> IF last.Name = "" THEN DeliveredNow.Name
                                      ELSE last.Name,
                             Arguments |-> last.Arguments \o DeliveredNow.Arguments]]_vars

\* Invocation 1 was created, then 2, then 1 was updated; the fragment without
\* an identifier that followed went to 2.
C23_Witness ==
    /\ Len(absorbed) = 4
    /\ absorbed[1][1] = [ID |-> 1, Name |-> "f", Arguments |-> ArgsOpen]
    /\ absorbed[2][1] = [ID |-> 2, Name |-> "g", Arguments |-> <<>>]
    /\ absorbed[3][1] = [ID |-> 1, Name |-> "", Arguments |-> ArgsClose]
    /\ absorbed[4][1] = [ID |-> NoID, Name |-> "", Arguments |-> ArgsClose]
    /\ session.toolCallsOrder =
           <<[ID |-> 1, Name |-> "f", Arguments |-> ArgsOpen \o ArgsClose],
             [ID |-> 2, Name |-> "g", Arguments |-> ArgsClose]>>

\* A fragment without an identifier came first and was dropped.
NoIDDroppedWhenEmpty ==
    /\ Len(absorbed) = 1
    /\ absorbed[1][1].ID = NoID
    /\ session = newToolCallsSession

\* The frames the tool-call loop of the streaming adapter writes for blocks.
RECURSIVE ToolUseLoop(_, _, _)
ToolUseLoop(w, blocks, idx) ==
    IF idx >= Len(blocks) THEN w
    ELSE ToolUseLoop(EmitToolUse(NewSSEStreamState, w, idx, blocks[idx + 1]).w,
                     blocks, idx + 1)

\* The invocations of the order that bear a name.
NamedTools == SelectSeq(session.toolCallsOrder, LAMBDA tool : tool.Name # "")

\* The content_block_start frames among the frames w.
StartFrames(w) == SelectSeq(w, LAMBDA fr : fr.type = SSEEventContentBlockStart)

\* C24: the order of the aggregator is the first-seen order of the identifiers
\* and no step reorders it; the tool_use blocks of the result are the named
\* invocations in that order, and the streaming adapter opens them in that
\* order under the block indices 0, 1, 2, ...
C24_FirstSeenOrderGovernsOutput ==
    /\ [](LET D == Delivered
              opened == Routing(D).opened
              blocks == filterAndDefaultContent(buildToolCallBlocks(session.toolCallsOrder))
              starts == StartFrames(ToolUseLoop(<<>>, blocks, 0))
          IN /\ [i \in 1..Len(session.toolCallsOrder) |-> session.toolCallsOrder[i].ID]
                    = [i \in 1..Len(opened) |-> D[opened[i]].f.ID]
             /\ IF NamedTools = <<>>
                THEN blocks = <<TextBlock(PlaceholderText)>> /\ starts = <<>>
                ELSE /\ Len(blocks) = Len(NamedTools)
                     /\ Len(starts) = Len(NamedTools)
                     /\ \A i \in 1..Len(NamedTools) :
                            /\ blocks[i].Type = "tool_use"
                            /\ blocks[i].ID = NamedTools[i].ID
                            /\ blocks[i].Name = NamedTools[i].Name
                            /\ starts[i] = FormatContentBlockStart(i - 1, "tool_use",
                                               <<NamedTools[i].ID, NamedTools[i].Name>>))
    /\ [][/\ Len(session'.toolCallsOrder) >= Len(session.toolCallsOrder)
          /\ \A i \in 1..Len(session.toolCallsOrder) :
                 session'.toolCallsOrder[i].ID = session.toolCallsOrder[i].ID]_vars

\* Invocation 1 was seen first, 2 second, then 1 was sent a further fragment:
\* the order is still 1, 2 and both are named.
C24_Witness ==
    /\ Len(absorbed) = 3
    /\ absorbed[1][1].ID = 1 /\ absorbed[2][1].ID = 2 /\ absorbed[3][1].ID = 1
    /\ Len(NamedTools) = 2
    /\ NamedTools[1].ID = 1 /\ NamedTools[2].ID = 2

\* The invocation seen first has no name: the one seen second is block 0.
UnnamedSkipped ==
    /\ Len(session.toolCallsOrder) = 2
    /\ session.toolCallsOrder[1].Name = ""
    /\ Len(NamedTools) = 1
    /\ NamedTools[1].ID = session.toolCallsOrder[2].ID

-----------------------------------------------------------------------------
(* Free text in the assembler (SpecAsm).                                   *)

\* The chunks received so far, in arrival order.
ChunksReceived ==
    LET ks == SelectSeq([i \in 1..Len(upstream) |-> i],
                        LAMBDA i : upstream[i].ev.kind \in {"chunk", "flood"})
    IN [i \in 1..Len(ks) |-> upstream[ks[i]].ev.chunk]

\* The chunk carries a free-text delta that is not empty.
HasTextDelta(chunk) ==
    /\ Len(chunk.Choices) > 0
    /\ ~chunk.Choices[1].Delta.isNil
    /\ chunk.Choices[1].Delta.Content.kind = "string"
    /\ chunk.Choices[1].Delta.Content.text # <<>>

\* The chunk carries invocation fragments or the finish reason tool_calls.
HasToolCalls(chunk) ==
    /\ Len(chunk.Choices) > 0
    /\ \/ Len(chunk.Choices[1].Delta.ToolCalls) > 0
       \/ chunk.Choices[1].FinishReason = "tool_calls"

\* The texts of the chunks among cs that satisfy keep, concatenated in order.
TextOf(cs, keep(_)) ==
    LET ks == SelectSeq(cs, keep)
    IN Flatten([i \in 1..Len(ks) |-> ks[i].Choices[1].Delta.Content.text])

\* The free text of every chunk, and of the chunks that carry nothing else.
AllText == TextOf(ChunksReceived, HasTextDelta)
PlainText == TextOf(ChunksReceived, LAMBDA c : HasTextDelta(c) /\ ~HasToolCalls(c))

\* C25 as stated: with invocation-mode never activated, the result holds the
\* concatenation of all non-empty free-text deltas in a single text block.
C25_ResultHoldsAllFreeText ==
    (asm.result # <<>> /\ ~asm.isToolCall /\ AllText # <<>>)
        => asm.result[1].ContentBlocks = <<TextBlock(AllText)>>

\* C25: while invocation-mode is not activated the running content is no block
\* before the first delta and then one text block holding, in order, the text
\* of every non-empty delta of a chunk without invocation fragments; the result
\* holds that block unless it is blank, and then the placeholder block.
C25_FreeTextConcatenated ==
    ~asm.isToolCall /\ asm.err = "nil"
        => /\ asm.contentBlocks = IF PlainText = <<>> THEN <<>>
                                  ELSE <<TextBlock(PlainText)>>
           /\ asm.result # <<>>
                  => asm.result[1].ContentBlocks =
                         IF TrimSpace(PlainText) # <<>> THEN <<TextBlock(PlainText)>>
                         ELSE <<TextBlock(PlaceholderText)>>

\* Two deltas, " " and "a", were received and the result holds " a".
C25_Witness ==
    /\ asm.result # <<>> /\ ~asm.isToolCall
    /\ Len(ChunksReceived) = 2
    /\ PlainText = <<32, 97>>
    /\ asm.result[1].ContentBlocks = <<TextBlock(<<32, 97>>)>>

\* The one delta received was " ": the result holds the placeholder.
BlankTextReplaced ==
    /\ asm.result # <<>> /\ ~asm.isToolCall
    /\ AllText = <<32>>
    /\ asm.result[1].ContentBlocks = <<TextBlock(PlaceholderText)>>

\* The delta "a" came with an invocation fragment and is not in the result.
TextBesideFragmentDropped ==
    /\ asm.result # <<>> /\ ~asm.isToolCall
    /\ AllText = <<97>> /\ PlainText = <<>>
    /\ asm.result[1].ContentBlocks = <<TextBlock(PlaceholderText)>>

\* The event the step at hand consumed.
EventNow == upstream'[Len(upstream')].ev

\* The step at hand consumed a chunk whose only load is a free-text delta.
TextDeltaNow ==
    /\ Len(upstream') = Len(upstream) + 1
    /\ EventNow.kind = "chunk"
    /\ HasTextDelta(EventNow.chunk)
    /\ ~HasToolCalls(EventNow.chunk)

\* C26 as stated: with invocation-mode latched, the step that consumes a
\* free-text delta changes no field of the running result.
C26_NoFieldChanges ==
    [][(asm.isToolCall /\ TextDeltaNow) => asm' = asm]_vars

\* C26: with invocation-mode latched, a free-text delta is ignored: the
\* content blocks, the stop reason, the flag and the aggregator stay as they
\* were, and the running result changes in nothing but what the chunk's own
\* usage, id and model set as they do for any chunk.
C26_TextIgnoredOnceLatched ==
    [][(asm.isToolCall /\ TextDeltaNow)
          => /\ asm'.contentBlocks = asm.contentBlocks
             /\ asm'.stopReason = asm.stopReason
             /\ asm'.isToolCall
             /\ session' = session
             /\ asm' = [asm EXCEPT
                           !.usage = IF EventNow.chunk.Usage # "nil"
                                     THEN EventNow.chunk.Usage ELSE @,
                           !.messageID = IF @ = "" THEN EventNow.chunk.ID ELSE @,
                           !.messageModel = IF asm.messageID = ""
                                            THEN EventNow.chunk.Model ELSE @]]_vars

\* The signal finish_reason:tool_calls came first, the delta "a" after it:
\* there is no content block, and the chunk's id and model were taken.
C26_Witness ==
    /\ Len(upstream) = 2
    /\ upstream[1].ev = [kind |-> "finish_reason", reason |-> "tool_calls"]
    /\ upstream[2].ev.kind = "chunk"
    /\ HasTextDelta(upstream[2].ev.chunk) /\ ~HasToolCalls(upstream[2].ev.chunk)
    /\ asm.isToolCall
    /\ asm.contentBlocks = <<>>
    /\ asm.messageID = upstream[2].ev.chunk.ID

\* The latch came by a chunk with the finish reason tool_calls.
LatchedByChunk ==
    /\ Len(upstream) = 2
    /\ upstream[1].ev.kind = "chunk"
    /\ upstream[1].ev.chunk.Choices[1].FinishReason = "tool_calls"
    /\ upstream[2].ev.kind = "chunk"
    /\ HasTextDelta(upstream[2].ev.chunk) /\ ~HasToolCalls(upstream[2].ev.chunk)
    /\ asm.contentBlocks = <<>>

-----------------------------------------------------------------------------
(* The end of the assembler's loop (SpecAsm).                              *)

\* The step at hand consumed an error of the reader.
ReaderErrorNow ==
    /\ Len(upstream') = Len(upstream) + 1
    /\ EventNow.kind \in {"EOF", "context.Canceled", "context.DeadlineExceeded", "error"}

\* C27: on end of stream, cancellation or deadline expiry the assembler returns
\* a result and no error, and the result carries what was received so far: the
\* usage, the flag, and the filtered tool blocks or text; on any other error of
\* the reader it returns "stream parsing failed" and no result.
C27_LoopEndsByReaderError ==
    /\ [](asm.pc = "returned" => (asm.result = <<>>) # (asm.err = "nil"))
    /\ [][ReaderErrorNow
             => /\ asm.pc = "loop" /\ asm'.pc = "returned"
                /\ IF EventNow.kind = "error"
                   THEN asm'.result = <<>> /\ asm'.err = "stream parsing failed"
                   ELSE /\ asm'.err = "nil"
                        /\ Len(asm'.result) = 1
                        /\ asm'.result[1].Usage = asm.usage
                        /\ asm'.result[1].IsToolCall = asm.isToolCall
                        /\ asm'.result[1].ContentBlocks =
                               filterAndDefaultContent(
                                   IF asm.isToolCall /\ Len(session.toolCallsOrder) > 0
                                   THEN buildToolCallBlocks(session.toolCallsOrder)
                                   ELSE asm.contentBlocks)]_vars

\* The text "a" was received and the reader was then cancelled: the result
\* holds "a".
C27_Witness ==
    /\ Len(upstream) = 2
    /\ upstream[2].ev.kind = "context.Canceled"
    /\ asm.err = "nil"
    /\ asm.result # <<>>
    /\ asm.result[1].ContentBlocks = <<TextBlock(<<97>>)>>

\* The text "a" was received and the reader then failed: there is no result.
ReaderFailedAfterText ==
    /\ Len(upstream) = 2
    /\ upstream[2].ev.kind = "error"
    /\ asm.contentBlocks = <<TextBlock(<<97>>)>>
    /\ asm.result = <<>>
    /\ asm.err = "stream parsing failed"

\* The deadline expired and a result was returned.
DeadlineGaveResult ==
    /\ upstream # <<>>
    /\ upstream[Len(upstream)].ev.kind = "context.DeadlineExceeded"
    /\ asm.result # <<>>

-----------------------------------------------------------------------------
(* Failure of the pipeline in the handler (SpecHandler).                   *)

ProcessingFailed == JSONError(StatusInternalServerError, "Response processing failed")

\* C28: when processUnifiedResponse fails the handler has written nothing
\* before, answers with the one error response and runs no adapter; an adapter
\* runs only after processUnifiedResponse has returned a result, and then the
\* handler itself has written nothing.
C28_FailureBeforeAnyOutput ==
    /\ [](/\ hdl.answer = ProcessingFailed => hdl.pipeline /\ hdl.adapter = "none"
          /\ hdl.adapter # "none" => hdl.pipeline /\ hdl.answer = NoAnswer
          /\ hdl.pc \in {"process", "write"} => hdl.answer = NoAnswer /\ hdl.adapter = "none")
    /\ [][/\ (hdl.pc = "process" /\ hdl'.pc = "returned")
                => hdl'.answer = ProcessingFailed /\ hdl'.adapter = "none"
          /\ hdl'.adapter # hdl.adapter => hdl.pc = "write" \/ hdl.pc = "idle"
          /\ hdl'.pc = "write" => hdl.pc = "process" /\ hdl'.pipeline]_vars

\* The pipeline failed on a 200 response: the answer is the error response
\* and no adapter ran.
C28_Witness ==
    /\ hdl.pc = "returned"
    /\ hdl.resp.status = StatusOK
    /\ hdl.pipeline
    /\ hdl.answer = ProcessingFailed
    /\ hdl.adapter = "none"

\* The pipeline returned a result and the streaming adapter wrote it.
AdapterAfterResult ==
    /\ hdl.pc = "returned"
    /\ hdl.pipeline
    /\ hdl.adapter = "writeStreamResponse"
    /\ hdl.answer = NoAnswer

-----------------------------------------------------------------------------
(* The chunks of the chunker (SpecChunk) and its loop (SpecChunkLoop).     *)

\* The first n chunks rejoined.
ChunksUpTo(n) == Flatten(SubSeq(chk.chunks, 1, n))

\* C29 as stated: every chunk is non-empty and at most maxChunkSize bytes
\* long, and is valid UTF-8 when the input is.
C29_ChunksWithinBudget ==
    chk.pc = "done"
        => \A i \in 1..Len(chk.chunks) :
               /\ chk.chunks[i] # <<>>
               /\ Len(chk.chunks[i]) <= chk.maxChunkSize
               /\ ValidString(chk.input) => ValidString(chk.chunks[i])

\* C29: every chunk is non-empty and valid UTF-8; for valid UTF-8 input every
\* chunk ends on a code-point boundary of the input and is at most
\* maxChunkSize bytes long or else one code point, hence at most maxChunkSize
\* long when that is 4 (the longest code point) or more.
C29_ChunksValidAndBounded ==
    chk.pc = "done"
        => \A i \in 1..Len(chk.chunks) :
               /\ chk.chunks[i] # <<>>
               /\ ValidString(chk.chunks[i])
               /\ ValidString(chk.input)
                      => /\ ChunksUpTo(i) = SubSeq(chk.input, 1, Len(ChunksUpTo(i)))
                         /\ ValidString(ChunksUpTo(i))
                         /\ \/ Len(chk.chunks[i]) <= chk.maxChunkSize
                            \/ Len(chk.chunks[i]) = RuneWidth(chk.chunks[i])
                         /\ chk.maxChunkSize >= 4
                                => Len(chk.chunks[i]) <= chk.maxChunkSize

\* "aa" and a rune of three bytes with the budget 4: the cut backs off to
\* after "aa" and the chunks are "aa" and the rune.
C29_Witness ==
    /\ chk.pc = "done"
    /\ chk.input = <<97, 97, 226, 130, 130>>
    /\ chk.maxChunkSize = 4
    /\ chk.chunks = << <<97, 97>>, <<226, 130, 130>> >>

\* A rune of four bytes with the budget 3 is one chunk of four bytes.
RuneLongerThanBudget ==
    /\ chk.pc = "done"
    /\ chk.input = <<241, 130, 130, 130>>
    /\ chk.maxChunkSize = 3
    /\ chk.chunks = << <<241, 130, 130, 130>> >>

\* The bytes "a", 0xFF with the budget 2 are one chunk of four bytes: "a" and
\* U+FFFD.
MendedLongerThanBudget ==
    /\ chk.pc = "done"
    /\ chk.input = <<97, 255>>
    /\ chk.maxChunkSize = 2
    /\ chk.chunks = << <<97, 239, 191, 189>> >>

\* The budget reaches to where the back-off loop ends, at start or further.
BackedOffToStart(c) ==
    LET totalBytes == Len(c.input)
        budget == IF c.start + c.maxChunkSize > totalBytes
                  THEN totalBytes ELSE c.start + c.maxChunkSize
    IN BackOff(c.input, c.start, budget) <= c.start

\* C30: the call returns, whatever the input and the budget; every round of
\* the loop moves start forward by at least one byte and not past the end of
\* the input, and when the back-off ends at start it moves start by the size
\* of the code point decoded there (one byte where none decodes).
C30_ChunkerTerminates ==
    /\ <>(chk.pc = "done")
    /\ [][(chk.pc = "loop" /\ chk' # chk /\ chk'.pc = "loop")
             => /\ chk'.start >= chk.start + 1
                /\ chk'.start <= Len(chk.input)
                /\ Len(chk'.chunks) = Len(chk.chunks) + 1
                /\ BackedOffToStart(chk)
                       => chk'.start = chk.start
                              + (IF RuneWidth(SliceFrom(chk.input, chk.start)) = 0 THEN 1
                                 ELSE RuneWidth(SliceFrom(chk.input, chk.start)))]_vars

\* The budget is 0 and the input a rune of three bytes and a stray
\* continuation byte: the loop went round twice, by three bytes and by one,
\* and the call returned.
C30_Witness ==
    /\ chk.pc = "done"
    /\ chk.maxChunkSize = 0
    /\ chk.input = <<226, 130, 130, 130>>
    /\ chk.start = 4
    /\ chk.chunks = << <<226, 130, 130>>, <<239, 191, 189>> >>

-----------------------------------------------------------------------------
(* The event interpreter (SpecConvert).                                    *)

\* The event bears the prefix and its payload, not the sentinel, does not
\* decode.
PrefixedUndecodable(ev) ==
    /\ HasPrefix(ev.line, DataMarker)
    /\ TrimSpace(TrimPrefix(ev.line, DataMarker)) # PayloadDone
    /\ ev.json = NoJSON

\* C31: for an event with the prefix whose payload does not decode the
\* converter returns the empty string and no error.
C31_DecodeFailureSwallowed ==
    \A i \in 1..Len(cnv) :
        PrefixedUndecodable(cnv[i].ev)
            => cnv[i].ret.out = "" /\ cnv[i].ret.err = "nil"

\* The converter returns an error for such an event and for no other, and
\* the string it returns with the error is empty.
ErrorOnlyOnDecodeFailure ==
    \A i \in 1..Len(cnv) :
        /\ cnv[i].ret.err # "nil" <=> PrefixedUndecodable(cnv[i].ev)
        /\ cnv[i].ret.err # "nil" => cnv[i].ret.out = ""

\* The event "data: {x " was converted and an error came back.
DecodeFailureReported ==
    /\ Len(cnv) = 1
    /\ cnv[1].ev.line = DataMarker \o <<123, 120, 32>>
    /\ cnv[1].ret = CnvReturn("", <<>>, "failed to unmarshal OpenAI chunk")

-----------------------------------------------------------------------------
(* The content of a result (SpecAsm).                                      *)

\* C32: the blocks of a result are all text blocks or all tool_use blocks;
\* with invocation-mode on and an invocation in the aggregator they are the
\* blocks built from the aggregator (the placeholder when none has a name),
\* and nothing of the text accumulated before is among them.
C32_BlocksHomogeneous ==
    asm.result # <<>>
        => LET blocks == asm.result[1].ContentBlocks
           IN /\ \/ \A i \in 1..Len(blocks) : blocks[i].Type = "text"
                 \/ \A i \in 1..Len(blocks) : blocks[i].Type = "tool_use"
              /\ (asm.isToolCall /\ Len(session.toolCallsOrder) > 0)
                     => /\ blocks = filterAndDefaultContent(
                                        buildToolCallBlocks(session.toolCallsOrder))
                        /\ \A i \in 1..Len(blocks) :
                               blocks[i].Type = "text"
                                   => blocks[i] = TextBlock(PlaceholderText)

\* The text "a" was accumulated, then an invocation f came with the finish
\* reason tool_calls: the result holds the tool_use block alone.
C32_Witness ==
    /\ asm.result # <<>>
    /\ asm.contentBlocks = <<TextBlock(<<97>>)>>
    /\ asm.isToolCall
    /\ Len(asm.result[1].ContentBlocks) = 1
    /\ asm.result[1].ContentBlocks[1].Type = "tool_use"
    /\ asm.result[1].ContentBlocks[1].Name = "f"

\* The text "a" was accumulated and the invocations have no name: the result
\* holds the placeholder.
TextReplacedByPlaceholder ==
    /\ asm.result # <<>>
    /\ asm.contentBlocks = <<TextBlock(<<97>>)>>
    /\ asm.isToolCall /\ Len(session.toolCallsOrder) > 0
    /\ asm.result[1].ContentBlocks = <<TextBlock(PlaceholderText)>>

-----------------------------------------------------------------------------
(* Content blocks in the streamed output (SpecStream).                     *)

\* The adapter ran to its end with a flusher and without a panic.
StreamedToEnd == wsr.pc = "done" /\ wsr.created /\ ~wsr.panicked

\* The frames hold a content block: a content_block_start and a later
\* content_block_stop, after message_start and before message_delta.
HasContentBlock(w) ==
    \E i, j \in 1..Len(w) :
        /\ i < j
        /\ w[i].type = SSEEventContentBlockStart
        /\ w[j].type = SSEEventContentBlockStop
        /\ \E k \in 1..(i - 1) : w[k].type = SSEEventMessageStart
        /\ \E k \in (j + 1)..Len(w) : w[k].type = SSEEventMessageDelta

\* C33: the frames the streaming adapter writes for a result hold at least
\* one content block between message_start and message_delta.
C33_StreamHasContentBlock == StreamedToEnd => HasContentBlock(frames)

\* The frames hold a content block exactly when the result is in free-text
\* mode or holds a tool_use block.
ContentBlockUnlessToolModeText ==
    StreamedToEnd
        => (HasContentBlock(frames)
                <=> \/ ~wsr.data.IsToolCall
                    \/ \E i \in 1..Len(wsr.data.ContentBlocks) :
                           wsr.data.ContentBlocks[i].Type = "tool_use")

\* A result with the flag set and the text "a": message_start, message_delta
\* and message_stop were written and nothing else.
ToolModeTextNotStreamed ==
    /\ StreamedToEnd
    /\ wsr.data.IsToolCall
    /\ wsr.data.ContentBlocks = <<TextBlock(<<97>>)>>
    /\ FrameTypes(frames) = <<SSEEventMessageStart, SSEEventMessageDelta, SSEEventMessageStop>>

\* The assembler returns such a result (SpecAsm): the text "a" was received,
\* then the signal finish_reason:tool_calls, and no invocation.
ToolModeResultHoldsText ==
    /\ asm.result # <<>>
    /\ asm.result[1].IsToolCall
    /\ asm.result[1].ContentBlocks = <<TextBlock(<<97>>)>>
    /\ session.toolCallsOrder = <<>>

-----------------------------------------------------------------------------
(* Validation of the streamed output (SpecStream).                         *)

\* C34: when the streaming adapter has run to its end the sequencer has
\* counted no validation error.
C34_StreamedWithoutValidationError ==
    StreamedToEnd => streamState.errorCount = 0

\* The sequencer has counted no error exactly in free-text mode; with the
\* flag set it has counted one, for message_delta, and its history holds no
\* content block event.
OneErrorInToolMode ==
    StreamedToEnd
        => /\ streamState.errorCount = IF wsr.data.IsToolCall THEN 1 ELSE 0
           /\ wsr.data.IsToolCall
                  => streamState.sequenceValidator.eventHistory
                         = <<SSEEventMessageStart, SSEEventMessageDelta, SSEEventMessageStop>>

\* The invocation f was streamed as a block of its own and the sequencer has
\* counted an error.
ToolBlockStreamedWithError ==
    /\ StreamedToEnd
    /\ wsr.data.ContentBlocks = <<ToolUseBlock(1, "f", ArgsOpen \o ArgsClose)>>
    /\ Count(FrameTypes(frames), SSEEventContentBlockStart) = 1
    /\ Count(FrameTypes(frames), SSEEventContentBlockStop) = 1
    /\ streamState.errorCount = 1

-----------------------------------------------------------------------------
(* The sequencer after Finish (SpecSeq).                                   *)

\* C35: once Finish has succeeded no operation of the sequencer writes a
\* further frame.
C35_NothingAfterMessageStop ==
    [][streamState.streamFinished => frames' = frames]_vars

\* What a finished sequencer can still write: a message_start while none was
\* written, a content_block_start while the tool mode is off and no block is
\* open, a content_block_stop for a block opened after Finish; never a
\* message_delta or a message_stop.
AfterFinishOnlyGuardedFrames ==
    [][(streamState.streamFinished /\ frames' # frames)
           => /\ Len(frames') = Len(frames) + 1
              /\ SubSeq(frames', 1, Len(frames)) = frames
              /\ LET t == frames'[Len(frames')].type
                 IN \/ t = SSEEventMessageStart /\ ~streamState.messageStartSent
                    \/ /\ t = SSEEventContentBlockStart
                       /\ ~streamState.toolCallsActive
                       /\ ~streamState.contentBlockStarted
                    \/ t = SSEEventContentBlockStop /\ streamState.contentBlockStarted]_vars

\* A content_block_start was written after message_stop.
BlockOpenedAfterMessageStop ==
    /\ streamState.streamFinished
    /\ seqCall = [op |-> "EnsureContentBlockStart", ret |-> TRUE]
    /\ \E i \in 1..Len(frames) - 1 :
           /\ frames[i].type = SSEEventMessageStop
           /\ frames[Len(frames)].type = SSEEventContentBlockStart

-----------------------------------------------------------------------------
(* The reader and the partition of the stream into reads (SpecSeparated).  *)

\* The events NextEvent returns, call after call, when one Read delivers the
\* whole stream and the next Read reports io.EOF.
RECURSIVE EventsOfBuffer(_)
EventsOfBuffer(buffer) ==
    LET r == tryParseEvent(buffer)
    IN IF r.event # <<>>
       THEN <<r.event>> \o EventsOfBuffer(SliceFrom(buffer, r.consumed))
       ELSE IF OnReadEOF([buffer |-> buffer, pc |-> "read"]).ret = "event"
            THEN <<OnReadEOF([buffer |-> buffer, pc |-> "read"]).event>>
            ELSE <<>>

ReaderAtEOF == parser.pc = "idle" /\ rdrCall.ret = "EOF"

\* Every newline of the stream has a newline for its neighbour.
DoubleFramed(bytes) ==
    \A i \in 1..Len(bytes) :
        bytes[i] = 10 => \/ i > 1 /\ bytes[i - 1] = 10
                         \/ i < Len(bytes) /\ bytes[i + 1] = 10

\* C36: the events returned up to end-of-stream are those of the stream read
\* in one piece, however the bytes were divided among the reads.
C36_EventsIndependentOfPartition ==
    ReaderAtEOF => events = EventsOfBuffer(source.bytes)

\* The events are those of the stream read in one piece when every event of
\* the stream ends with two newlines and no Read returned bytes with io.EOF.
IndependentWhenDoubleFramed ==
    (ReaderAtEOF /\ DoubleFramed(source.bytes) /\ ~source.dataWithEOF)
        => events = EventsOfBuffer(source.bytes)

\* Two events ending with one newline and with two: read in one piece they
\* are one event, read line by line they are two.
SingleNewlineSplitByReads ==
    /\ ReaderAtEOF
    /\ ~source.dataWithEOF
    /\ source.bytes = DataMarker \o PayloadJSON \o NL \o DataDone \o NL \o NL
    /\ events = <<DataMarker \o PayloadJSON, DataDone>>
    /\ EventsOfBuffer(source.bytes) = <<DataMarker \o PayloadJSON \o NL \o DataDone>>

\* A stream framed by two newlines whose last bytes came with io.EOF: the
\* last event is cut short.
DoubleFramedCutByEOF ==
    /\ ReaderAtEOF
    /\ source.dataWithEOF
    /\ DoubleFramed(source.bytes)
    /\ source.bytes = DataMarker \o PayloadJSON \o NL \o NL
    /\ events # EventsOfBuffer(source.bytes)

-----------------------------------------------------------------------------
(* The aggregator at the overflow (SpecAgg).                               *)

AbsorbFailed == aggCall.op = "absorb" /\ aggCall.ret = ToolProcessError

\* The fragments of calls whose identifier, if any, is in the map of sess.
Known(sess, calls, k) ==
    \A i \in 1..k : calls[i].ID = NoID \/ calls[i].ID \in DOMAIN sess.toolCallsMap

\* The positions a failed absorb of calls can have stopped at: a fragment
\* with an identifier the map does not hold, behind fragments it does.
Overflowing(sess, calls) ==
    {k \in 1..Len(calls) :
        /\ calls[k].ID # NoID
        /\ calls[k].ID \notin DOMAIN sess.toolCallsMap
        /\ Known(sess, calls, k - 1)}

\* C37 as stated: an absorb that fails with the overflow error leaves the
\* aggregator as it was before the call.
C37_FailedAbsorbChangesNothing ==
    [][AbsorbFailed' => session' = session]_vars

\* C37: an absorb that fails with the overflow error stops at the first
\* fragment whose new identifier finds the order list full, with MaxToolCalls
\* tools: the fragments listed before it have been applied, that fragment and
\* those behind it have not.
C37_FailedAbsorbAppliesPrefix ==
    [][AbsorbFailed'
           => LET calls == absorbed'[Len(absorbed')]
              IN /\ Len(session'.toolCallsOrder) = MaxToolCalls
                 /\ \E k \in Overflowing(session', calls) :
                        AbsorbToolCalls(session, SubSeq(calls, 1, k - 1))
                            = [sess |-> session', ret |-> ToolProcessContinue]]_vars

\* The flood failed at its last identifier after its first ones were created.
C37_Witness ==
    /\ AbsorbFailed
    /\ absorbed[Len(absorbed)] = FloodChunk
    /\ FloodChunk[1].ID \in DOMAIN session.toolCallsMap
    /\ FloodChunk[FloodLen].ID \notin DOMAIN session.toolCallsMap
    /\ Len(session.toolCallsOrder) = MaxToolCalls

-----------------------------------------------------------------------------
(* The end of the reading loop (SpecReadLoop).                             *)

\* sub can be obtained from s by leaving bytes out.
RECURSIVE Embeds(_, _)
Embeds(sub, s) ==
    IF sub = <<>> THEN TRUE
    ELSE IF s = <<>> THEN FALSE
    ELSE IF Head(sub) = Head(s) THEN Embeds(Tail(sub), Tail(s))
    ELSE Embeds(sub, Tail(s))

\* C38: on a stream that ends with end-of-stream the loop comes to its end
\* with NextEvent returning io.EOF; a residue that is not blank is returned
\* as an event by the call that meets end-of-stream and the buffer is empty
\* after it, so the call after it returns io.EOF; and the events returned,
\* one after the other, are bytes of the stream in stream order, none of them
\* used twice.
C38_LoopEndsAtEOF ==
    /\ <>ReaderAtEOF
    /\ [](ReaderAtEOF => /\ source.read = Len(source.bytes)
                         /\ TrimResidue(parser.buffer) = <<>>)
    /\ [][(parser.pc = "read" /\ parser'.pc = "idle" /\ TrimResidue(parser.buffer) # <<>>)
              => /\ events' = Append(events, TrimResidue(parser.buffer))
                 /\ parser'.buffer = <<>>]_vars
    /\ [](Embeds(Flatten(events), SubSeq(source.bytes, 1, source.read)))

\* The loop has ended on two lines that end with one newline each: the first
\* was returned as an event, the second, no JSON, as the residue.
C38_Witness ==
    /\ ReaderAtEOF
    /\ source.bytes = DataBrace \o NL \o DataMarker \o <<120>> \o NL
    /\ events = <<DataBrace, DataMarker \o <<120>>>>
    /\ parser.buffer = <<>>

-----------------------------------------------------------------------------
(* The signals (SpecSignal).                                               *)

Reloaded == proc.reloads > 0

\* C39: a SIGINT or SIGTERM that reaches the process after SIGHUPs have been
\* handled leads to the shutdown: the debug file is closed and the process
\* has exited.
C39_ShutdownAfterReload ==
    (/\ Reloaded
     /\ proc.sent # <<>>
     /\ proc.sent[Len(proc.sent)] \in {"SIGINT", "SIGTERM"})
        ~> (~proc.running /\ ~proc.debugFile)

\* The goroutine handles one signal: after a SIGHUP it has returned, nothing
\* receives from the channel any more and the process runs on whatever
\* signal follows.
OneSignalHandled ==
    /\ [](proc.reloads <= 1)
    /\ [](Reloaded => proc.running /\ proc.handler = "returned")
    /\ [][Reloaded => proc'.sigChan = proc.sigChan \/ proc.sigChan = <<>>]_vars

\* A SIGINT or SIGTERM received as the first signal shuts the process down.
FirstSignalShutsDown ==
    (/\ proc.sigChan # <<>>
     /\ proc.sigChan[1] \in {"SIGINT", "SIGTERM"}
     /\ proc.handler = "waiting")
        ~> (~proc.running /\ ~proc.debugFile)

\* A SIGINT sent after the reload lies in the channel, the process runs.
SigintLeftInChannel ==
    /\ proc.sent = <<"SIGHUP", "SIGINT", "SIGTERM">>
    /\ proc.reloads = 1
    /\ proc.sigChan = <<"SIGINT">>
    /\ proc.handler = "returned"
    /\ proc.running

-----------------------------------------------------------------------------
(* The map and the order list of the aggregator (SpecTeardown).            *)

\* Every identifier of the map points to an element of the order list that
\* carries it, every element of the order list is in the map under its
\* identifier, and no identifier is carried by two elements.
MapMatchesOrder(sess) ==
    /\ \A id \in DOMAIN sess.toolCallsMap :
           /\ sess.toolCallsMap[id] \in 1..Len(sess.toolCallsOrder)
           /\ sess.toolCallsOrder[sess.toolCallsMap[id]].ID = id
    /\ \A i \in 1..Len(sess.toolCallsOrder) :
           /\ sess.toolCallsOrder[i].ID \in DOMAIN sess.toolCallsMap
           /\ sess.toolCallsMap[sess.toolCallsOrder[i].ID] = i
    /\ \A i, j \in 1..Len(sess.toolCallsOrder) :
           sess.toolCallsOrder[i].ID = sess.toolCallsOrder[j].ID => i = j

TornDown == aggCall.op \in {"teardown", "teardown again"}

\* C40: after any absorbs and teardowns the map and the order list describe
\* the same tools, and after a teardown, a repeated one too, both are empty.
C40_MapAndOrderAgree ==
    /\ MapMatchesOrder(session)
    /\ TornDown => session = newToolCallsSession

\* A second teardown in a row, on a session that had held the full count of
\* tools before the first.
C40_Witness ==
    /\ aggCall.op = "teardown again"
    /\ Contains(absorbed, FloodChunk)
    /\ Len(absorbed) > 1
    /\ session = newToolCallsSession

\* Tools absorbed after a teardown: the session holds the tool of the chunk
\* absorbed last and not the one of the chunk before the teardown.
AbsorbedAfterTeardown ==
    /\ aggCall.op = "absorb"
    /\ Len(absorbed) = 2
    /\ absorbed[1] = <<[ID |-> 1, Name |-> "f", Arguments |-> ArgsOpen]>>
    /\ absorbed[2] = <<[ID |-> 2, Name |-> "g", Arguments |-> <<>>]>>
    /\ DOMAIN session.toolCallsMap = {2}
    /\ Len(session.toolCallsOrder) = 1

=============================================================================
